---- MODULE Spec2Model ----
(***************************************************************************)
(* PromptManager evaluation core: the orchestrator (runSuite), its bounded *)
(* concurrency pool (runPool), the three provider tool-calling loops, the  *)
(* parent side of the tool runner, and the schema / assertion pipeline.    *)
(***************************************************************************)
EXTENDS Integers, Sequences, FiniteSets, TLC

VARIABLES
    runConfig,   \* the RunConfig handed to runSuite (provider, concurrency)
    config,      \* the loaded configuration and suite files
    env,         \* process.env as the adapters see it
    runPc,       \* position of runSuite: "init" | "pool" | "resolved" | "rejected"
    cursor,      \* runPool's shared cursor (0-based, as in the source)
    workers,     \* runPool's logical workers: [pc, index]
    results,     \* runPool's preallocated results array (1-based here)
    cs,          \* per dataset index: the state of that case's pipeline
    report,      \* the RunReport runSuite resolved with
    hist,        \* per dataset index: what the case's environment did (history)
    runner,      \* a ToolRunner and its one execute call, in detail
    childProcess, \* the tool worker process that call spawned
    registry,    \* providers/registry.ts: the adapter map and builtinsRegistered
    call         \* the library call last made (function, argument, result)

vars == <<runConfig, config, env, runPc, cursor, workers, results, cs, report, hist,
          runner, childProcess, registry, call>>

(***************************************************************************)
(* Bounds of the model.                                                    *)
(***************************************************************************)
MaxCases == 2          \* dataset rows
MaxToolCalls == 2      \* largest toolRunner.maxToolCallsPerCase tried
MaxItems == 2          \* items in one provider response
MaxCommand == 3        \* atoms in a toolRunner.command
MaxReportCases == 2    \* cases in a report handed to diffRuns

(***************************************************************************)
(* JSON values.  Strings are sequences of characters, objects are ordered  *)
(* sequences of <<key, value>> pairs (insertion order is observable        *)
(* through JSON.stringify and Object.keys).                                *)
(***************************************************************************)
JUndef == [t |-> "undefined"]
JNull == [t |-> "null"]
JNum(n) == [t |-> "number", n |-> n]
JStr(s) == [t |-> "string", s |-> s]
JArr(a) == [t |-> "array", a |-> a]
JObj(o) == [t |-> "object", o |-> o]

Range(s) == {s[i] : i \in DOMAIN s}

SeqFilter(s, Test(_)) ==
    LET F[i \in 0..Len(s)] ==
            IF i = 0 THEN <<>>
            ELSE IF Test(s[i]) THEN Append(F[i - 1], s[i]) ELSE F[i - 1]
    IN F[Len(s)]

SeqMap(s, Op(_)) == [i \in DOMAIN s |-> Op(s[i])]

ObjectKeys(v) == SeqMap(v.o, LAMBDA p : p[1])

\* obj[key]: the value of the last pair carrying the key, or undefined.
ObjectGet(v, key) ==
    LET hits == {i \in DOMAIN v.o : v.o[i][1] = key}
    IN IF hits = {} THEN JUndef
       ELSE v.o[CHOOSE i \in hits : \A j \in hits : j <= i][2]

\* The texts of a list joined with commas.
JoinCommas(texts) ==
    LET F[i \in 0..Len(texts)] ==
            IF i = 0 THEN <<>>
            ELSE IF i = 1 THEN texts[1]
            ELSE F[i - 1] \o <<",">> \o texts[i]
    IN F[Len(texts)]

\* JSON.stringify(v) as a sequence of tokens: no text at all for undefined
\* (the call returns undefined), null for an undefined array element, no
\* member for an undefined property value; members are written in the
\* object's own key order.
RECURSIVE JSONStringify(_)
JSONStringify(v) ==
    CASE v.t = "undefined" -> <<>>
      [] v.t = "null" -> <<"null">>
      [] v.t = "number" -> <<ToString(v.n)>>
      [] v.t = "string" -> <<"\"">> \o v.s \o <<"\"">>
      [] v.t = "array" ->
            <<"[">>
            \o JoinCommas([i \in DOMAIN v.a |->
                              IF v.a[i].t = "undefined" THEN <<"null">>
                              ELSE JSONStringify(v.a[i])])
            \o <<"]">>
      [] v.t = "object" ->
            <<"{">>
            \o JoinCommas([i \in DOMAIN SeqFilter(v.o, LAMBDA p : p[2].t # "undefined") |->
                              <<"\"", SeqFilter(v.o, LAMBDA p : p[2].t # "undefined")[i][1], "\"", ":">>
                              \o JSONStringify(SeqFilter(v.o, LAMBDA p : p[2].t # "undefined")[i][2])])
            \o <<"}">>

\* JSON.stringify(a) === JSON.stringify(b).
JsonEqual(a, b) == JSONStringify(a) = JSONStringify(b)

(***************************************************************************)
(* utils.ts                                                                *)
(***************************************************************************)
asObject(value) ==
    IF value.t = "object" THEN value ELSE JObj(<<>>)

\* pathValue is given already split on "." with empty tokens discarded.
getByPath(value, tokens) ==
    LET Walk[i \in 0..Len(tokens)] ==
            IF i = 0 THEN value
            ELSE IF Walk[i - 1].t # "object" THEN JUndef
            ELSE ObjectGet(Walk[i - 1], tokens[i])
    IN Walk[Len(tokens)]

toErrorMessage(err) == err.message

\* Errors thrown in the program: a plain Error, or a ToolRunnerError that
\* carries a code.
PlainError(message) == [class |-> "Error", code |-> "", message |-> message]
ToolRunnerError(code, message) ==
    [class |-> "ToolRunnerError", code |-> code, message |-> message]
NoError == [class |-> "none", code |-> "", message |-> ""]

(***************************************************************************)
(* assertions.ts                                                           *)
(***************************************************************************)
Includes(hay, needle) ==
    \E i \in 0..(Len(hay) - Len(needle)) : SubSeq(hay, i + 1, i + Len(needle)) = needle

\* String(actual ?? "") on the values of the model.
ToStringJS(v) ==
    CASE v.t \in {"undefined", "null"} -> <<>>
      [] v.t = "string" -> v.s
      [] v.t = "number" -> <<ToString(v.n)>>
      [] OTHER -> <<"[object Object]">>

\* new RegExp(pattern) over the alphabet of the model: an opening
\* parenthesis is never closed, so a pattern holding one is a SyntaxError;
\* every other pattern is a literal and matches as a substring search.
RegExpThrows(pattern) == "(" \in Range(pattern)

\* A dotted path as its tokens; split(".").filter(Boolean) drops empty ones.
PathTokens(path) == SeqFilter(path, LAMBDA tok : tok # "")

JoinDots(path) ==
    LET J[i \in 0..Len(path)] ==
            IF i = 0 THEN ""
            ELSE IF i = 1 THEN path[1]
            ELSE J[i - 1] \o "." \o path[i]
    IN J[Len(path)]

\* matcher.expectedPath.replace(/^\$expected\./, "")
StripExpectedPrefix(path) ==
    IF Len(path) >= 2 /\ path[1] = "$expected" THEN Tail(path) ELSE path

resolveExpectedValue(matcher, fieldPath, expectedOutput) ==
    IF matcher.value # JUndef THEN matcher.value
    ELSE IF matcher.expectedPath # <<>>
    THEN getByPath(expectedOutput, PathTokens(StripExpectedPrefix(matcher.expectedPath)))
    ELSE getByPath(expectedOutput, PathTokens(fieldPath))

CheckOutcome(passed, message) == [threw |-> FALSE, passed |-> passed, message |-> message]
CheckThrows == [threw |-> TRUE, passed |-> FALSE, message |-> "Invalid regular expression: /(/: Unterminated group"]

RangeBound(range, key) ==
    IF range.t = "object" THEN ObjectGet(range, key) ELSE JUndef

BoundText(b, fallback) == IF b = JUndef THEN fallback ELSE ToString(b.n)

runCheck(op, actual, expected) ==
    CASE op = "equals" ->
            LET passed == JsonEqual(actual, expected)
            IN CheckOutcome(passed,
                   IF passed THEN "matches expected value" ELSE "value does not match expected")
      [] op = "oneOf" ->
            LET pool == IF expected.t = "array" THEN expected.a ELSE <<>>
                passed == \E i \in DOMAIN pool : JsonEqual(pool[i], actual)
            IN CheckOutcome(passed,
                   IF passed THEN "value matches allowed option" ELSE "value not in allowed set")
      [] op = "contains" ->
            IF actual.t = "string" /\ expected.t = "string"
            THEN LET passed == Includes(actual.s, expected.s)
                 IN CheckOutcome(passed, IF passed THEN "substring found" ELSE "substring missing")
            ELSE IF actual.t = "array"
            THEN LET passed == \E i \in DOMAIN actual.a : JsonEqual(actual.a[i], expected)
                 IN CheckOutcome(passed,
                        IF passed THEN "array contains value" ELSE "array does not contain value")
            ELSE CheckOutcome(FALSE, "contains expects string or array output")
      [] op = "regex" ->
            LET pattern == IF expected.t = "string" THEN expected.s ELSE <<>>
            IN IF RegExpThrows(pattern) THEN CheckThrows
               ELSE LET passed == Includes(ToStringJS(actual), pattern)
                    IN CheckOutcome(passed,
                           IF passed THEN "regex matched" ELSE "regex did not match")
      [] op = "numericRange" ->
            LET range == IF expected \in {JUndef, JNull} THEN JObj(<<>>) ELSE expected
                min == RangeBound(range, "min")
                max == RangeBound(range, "max")
                finite == actual.t = "number"
                minOk == min = JUndef \/ (finite /\ actual.n >= min.n)
                maxOk == max = JUndef \/ (finite /\ actual.n <= max.n)
                passed == finite /\ minOk /\ maxOk
            IN CheckOutcome(passed,
                   IF passed THEN "value in numeric range"
                   ELSE "value outside range [" \o BoundText(min, "-inf") \o ", "
                            \o BoundText(max, "+inf") \o "]")
      [] op = "exists" ->
            LET passed == actual # JUndef /\ actual # JNull
            IN CheckOutcome(passed, IF passed THEN "value exists" ELSE "value missing")
      [] op = "absent" ->
            LET passed == actual = JUndef \/ actual = JNull
            IN CheckOutcome(passed,
                   IF passed THEN "value absent as expected" ELSE "value should be absent")
      [] OTHER -> CheckOutcome(FALSE, "unsupported assertion operator")

\* The flat list of (field, matcher) pairs in the order of the double loop.
MatcherList(spec) ==
    LET F[i \in 0..Len(spec.fieldMatchers)] ==
            IF i = 0 THEN <<>>
            ELSE F[i - 1] \o SeqMap(spec.fieldMatchers[i][2],
                                     LAMBDA m : [field |-> spec.fieldMatchers[i][1], matcher |-> m])
    IN F[Len(spec.fieldMatchers)]

\* The AssertionCheckResult of one matcher ("threw": new RegExp threw).
CheckResult(p, actualValue, expectedValue, result) ==
    [field |-> JoinDots(p.field), op |-> p.matcher.op, passed |-> result.passed,
     actual |-> actualValue, message |-> result.message,
     expected |-> expectedValue, threw |-> result.threw]

CheckWith(p, actualValue, expectedValue) ==
    CheckResult(p, actualValue, expectedValue, runCheck(p.matcher.op, actualValue, expectedValue))

Check(p, output, expectedOutput) ==
    CheckWith(p, getByPath(output, PathTokens(p.field)),
              resolveExpectedValue(p.matcher, p.field, expectedOutput))

\* The value evaluateAssertions returns.
AssertionOutcome(missingKeys, unexpectedKeys, checks) ==
    [threw |-> \E i \in DOMAIN checks : checks[i].threw,
     passed |-> /\ Len(missingKeys) = 0
                /\ Len(unexpectedKeys) = 0
                /\ \A i \in DOMAIN checks : checks[i].passed,
     checks |-> SeqMap(checks, LAMBDA c : [field |-> c.field, op |-> c.op, passed |-> c.passed,
                                            actual |-> c.actual, message |-> c.message,
                                            expected |-> c.expected]),
     missingKeys |-> missingKeys,
     unexpectedKeys |-> unexpectedKeys]

AllowedKeys(spec) ==
    Range(spec.requiredKeys) \cup Range(spec.variableFields)
        \cup {JoinDots(spec.fieldMatchers[i][1]) : i \in DOMAIN spec.fieldMatchers}

\* The property names every object inherits from Object.prototype.
ObjectPrototypeKeys ==
    {"constructor", "hasOwnProperty", "isPrototypeOf", "propertyIsEnumerable",
     "toLocaleString", "toString", "valueOf", "__proto__", "__defineGetter__",
     "__defineSetter__", "__lookupGetter__", "__lookupSetter__"}

\* key in obj: own keys and inherited ones.
KeyIn(key, ownKeys) == key \in Range(ownKeys) \/ key \in ObjectPrototypeKeys

EvaluateKeys(outKeys, output, expectedOutput, spec) ==
    AssertionOutcome(
        SeqFilter(spec.requiredKeys, LAMBDA key : ~KeyIn(key, outKeys)),
        IF spec.allowAdditionalKeys THEN <<>>
        ELSE SeqFilter(outKeys, LAMBDA key : key \notin AllowedKeys(spec)),
        SeqMap(MatcherList(spec), LAMBDA p : Check(p, output, expectedOutput)))

evaluateAssertions(output, expectedOutput, spec) ==
    EvaluateKeys(ObjectKeys(asObject(output)), output, expectedOutput, spec)

(***************************************************************************)
(* schema.ts.  The schemas of the model are { type: "object", required }   *)
(* documents.                                                              *)
(***************************************************************************)
ObjectSchema(required) == [kind |-> "object", required |-> required]

validateSchema(schema, payload) ==
    IF payload.t # "object"
    THEN [valid |-> FALSE, errors |-> <<"(root) must be object">>]
    ELSE LET missing == SeqFilter(schema.required,
                                  LAMBDA key : key \notin Range(ObjectKeys(payload)))
         IN [valid |-> Len(missing) = 0,
             errors |-> SeqMap(missing,
                               LAMBDA key : "(root) must have required property '" \o key \o "'")]

(***************************************************************************)
(* utils.ts: parseMaybeJson.  Wire texts are tokens; JSON.parse is the     *)
(* table of the texts of the model that are JSON documents.                *)
(***************************************************************************)
TextGood == "{\"k\":\"ab\"}"
TextOther == "{\"x\":1}"
TextPlain == "ab"
FinalTexts == {TextGood, TextOther, TextPlain}

JSONparse(text) ==
    CASE text = TextGood -> [ok |-> TRUE, value |-> JObj(<< <<"k", JStr(<<"a", "b">>)>> >>)]
      [] text = TextOther -> [ok |-> TRUE, value |-> JObj(<< <<"x", JNum(1)>> >>)]
      [] OTHER -> [ok |-> FALSE, value |-> JUndef]

\* The characters of a text that is kept as a string.
TextChars(text) == IF text = TextPlain THEN <<"a", "b">> ELSE <<text>>

parseMaybeJson(text) ==
    IF text = "" THEN JStr(<<>>)
    ELSE IF JSONparse(text).ok THEN JSONparse(text).value
    ELSE JStr(TextChars(text))

toFinalJson(text) == parseMaybeJson(text)

\* chunks.join("\n").trim()
JoinLines(chunks) ==
    LET J[i \in 0..Len(chunks)] ==
            IF i = 0 THEN ""
            ELSE IF i = 1 THEN chunks[1]
            ELSE J[i - 1] \o "\n" \o chunks[i]
    IN J[Len(chunks)]

(***************************************************************************)
(* tools/toolRunner.ts: how one execute call settles, from what the child  *)
(* process did.                                                            *)
(***************************************************************************)
StdoutEmpty == ""
StdoutGarbage == "not json"
StdoutFailCoded == "{\"ok\":false,\"error\":{\"code\":\"TOOL_NOT_FOUND\",\"message\":\"no handler\"}}"
StdoutFailBare == "{\"ok\":false}"
StdoutOk == "{\"ok\":true,\"result\":1}"
StdoutOkBare == "{\"ok\":true}"

\* JSON.parse of the worker's stdout: the ToolWorkerResponse it denotes.
ParseWorkerResponse(text) ==
    CASE text = StdoutFailCoded ->
            [parsed |-> TRUE, ok |-> FALSE, code |-> "TOOL_NOT_FOUND", message |-> "no handler",
             result |-> JUndef]
      [] text = StdoutFailBare ->
            [parsed |-> TRUE, ok |-> FALSE, code |-> "", message |-> "", result |-> JUndef]
      [] text = StdoutOk ->
            [parsed |-> TRUE, ok |-> TRUE, code |-> "", message |-> "", result |-> JNum(1)]
      [] text = StdoutOkBare ->
            [parsed |-> TRUE, ok |-> TRUE, code |-> "", message |-> "", result |-> JUndef]
      [] OTHER ->
            [parsed |-> FALSE, ok |-> FALSE, code |-> "", message |-> "", result |-> JUndef]

ChildBehaviours ==
    {[event |-> "timeout", stdout |-> StdoutEmpty],
     [event |-> "error", stdout |-> StdoutEmpty]}
    \cup {[event |-> "close", stdout |-> t] :
            t \in {StdoutEmpty, StdoutGarbage, StdoutFailCoded, StdoutFailBare, StdoutOk, StdoutOkBare}}

Resolved(result) == [ok |-> TRUE, result |-> result, error |-> NoError]
Rejected(error) == [ok |-> FALSE, result |-> JUndef, error |-> error]

\* The settlement of ToolRunner.execute: the timer callback, the child's
\* "error" event, or the "close" handler.
execute(child) ==
    CASE child.event = "timeout" -> Rejected(ToolRunnerError("TOOL_TIMEOUT", "timed out"))
      [] child.event = "error" -> Rejected(ToolRunnerError("TOOL_PROCESS_ERROR", "spawn failed"))
      [] OTHER ->
            LET parsed == ParseWorkerResponse(child.stdout)
            IN IF child.stdout = StdoutEmpty
               THEN Rejected(ToolRunnerError("TOOL_EMPTY_RESPONSE", "returned no output"))
               ELSE IF ~parsed.parsed
               THEN Rejected(ToolRunnerError("TOOL_INVALID_RESPONSE", "returned invalid JSON"))
               ELSE IF ~parsed.ok
               THEN Rejected(ToolRunnerError(
                        IF parsed.code # "" THEN parsed.code ELSE "TOOL_EXECUTION_ERROR",
                        IF parsed.message # "" THEN parsed.message
                        ELSE "failed without an error message"))
               ELSE Resolved(IF parsed.result # JUndef THEN parsed.result ELSE JNull)

(***************************************************************************)
(* Provider responses.  A response that postJson accepted is a list of     *)
(* items (OpenAI output items, Anthropic content blocks, Google parts of   *)
(* the first candidate); OpenAI responses may carry a top-level            *)
(* output_text.  postJson throws on a non-2xx status or a body that is not *)
(* JSON.                                                                   *)
(***************************************************************************)
CallItem == [type |-> "call", text |-> ""]
OtherItem == [type |-> "other", text |-> ""]
TextItem(t) == [type |-> "text", text |-> t]
Items == {CallItem, OtherItem} \cup {TextItem(t) : t \in FinalTexts}

SeqsUpTo(S, n) == UNION {[1..k -> S] : k \in 0..n}

NoOutputText == "<absent>"

\* A response postJson rejects: status 503 with the body "busy", or status
\* 200 with that body, which is not JSON.
FailedResponse(h) ==
    [http |-> h, status |-> IF h = "non-2xx" THEN 503 ELSE 200, text |-> "busy",
     items |-> <<>>, output_text |-> NoOutputText]

Responses ==
    {FailedResponse(h) : h \in {"non-2xx", "not json"}}
    \cup {[http |-> "ok", items |-> its, output_text |-> ot] :
            its \in SeqsUpTo(Items, MaxItems), ot \in {NoOutputText, TextPlain}}

postJson(resp) ==
    CASE resp.http = "non-2xx" ->
             [threw |-> TRUE,
              error |-> PlainError("Provider request failed (" \o ToString(resp.status)
                                       \o "): " \o resp.text)]
      [] resp.http = "not json" ->
             [threw |-> TRUE,
              error |-> PlainError("Provider returned invalid JSON: " \o resp.text)]
      [] OTHER -> [threw |-> FALSE, error |-> NoError]

\* The provider's id for the k-th call item of the response to request r.
CallId(r, k) == "call_" \o ToString(r) \o "_" \o ToString(k)

getFunctionCalls(items) == SeqFilter(items, LAMBDA it : it.type = "call")

CallIds(r, items) == [k \in 1..Len(getFunctionCalls(items)) |-> CallId(r, k)]

TextChunks(items) ==
    SeqMap(SeqFilter(items, LAMBDA it : it.type = "text"), LAMBDA it : it.text)

\* openai.ts extractOutputText
extractOutputText(resp) ==
    IF resp.output_text # NoOutputText THEN resp.output_text
    ELSE JoinLines(TextChunks(resp.items))

\* anthropic.ts extractTextFromContent, google.ts extractText
extractTextFromContent(items) == JoinLines(TextChunks(items))

(***************************************************************************)
(* providers/*.ts: invokeWithTools.  The state of one call is the record   *)
(*   phase            "http" (a request is outstanding), "tool" (an        *)
(*                    invokeTool call is outstanding), "returned", "threw" *)
(*   toolCallsUsed, trace, httpRequests, toolInvocations                   *)
(*   pending          ids of the calls of the current response not yet     *)
(*                    settled; its head is the one in flight               *)
(*   output / error   the ProviderResponse's finalOutput / the exception   *)
(***************************************************************************)
Providers == {"openai", "anthropic", "google"}

DefaultKeyEnv(provider) ==
    CASE provider = "openai" -> "OPENAI_API_KEY"
      [] provider = "anthropic" -> "ANTHROPIC_API_KEY"
      [] OTHER -> "GEMINI_API_KEY"

EnvUnset == "<undefined>"

\* process.env[keyEnv], with the Google adapter's ?? fallback.
ApiKey(provider, environ) ==
    IF provider = "google" /\ environ[DefaultKeyEnv(provider)] = EnvUnset
    THEN environ["GOOGLE_API_KEY"]
    ELSE environ[DefaultKeyEnv(provider)]

Unclaimed ==
    [phase |-> "unclaimed", claimedBy |-> {}, invocations |-> 0, toolCallsUsed |-> 0,
     pending |-> <<>>, trace |-> <<>>, httpRequests |-> 0, toolInvocations |-> 0,
     returnedAt |-> 0, output |-> JUndef, error |-> NoError]

Throw(a, error) == [a EXCEPT !.phase = "threw", !.error = error]

Return(a, text) ==
    [a EXCEPT !.phase = "returned", !.output = toFinalJson(text), !.returnedAt = a.httpRequests]

SendRequest(a) == [a EXCEPT !.phase = "http", !.httpRequests = @ + 1]

\* req.invokeTool(call) for the head of pending.
InvokeTool(a) == [a EXCEPT !.phase = "tool", !.toolInvocations = @ + 1]

MissingKeyMessage(provider) ==
    CASE provider = "openai" ->
             "Missing OpenAI API key in environment variable OPENAI_API_KEY."
      [] provider = "anthropic" ->
             "Missing Anthropic API key in environment variable ANTHROPIC_API_KEY."
      [] OTHER -> "Missing Google API key in GEMINI_API_KEY or GOOGLE_API_KEY."

ExceededMessage(name, maxToolCalls) ==
    name \o " tool-calling exceeded maxToolCalls=" \o ToString(maxToolCalls) \o "."

\* The prologue of invokeWithTools up to its first await.
invokeWithTools(a, provider, environ) ==
    LET apiKey == ApiKey(provider, environ)
        started == [a EXCEPT !.invocations = @ + 1]
    IN IF apiKey \in {EnvUnset, ""}
       THEN Throw(started, PlainError(MissingKeyMessage(provider)))
       ELSE SendRequest(started)

\* Mutants of ExceedsLimit: the calls already used are left out of the sum;
\* the calls of the response are left out of the sum.
ExceedsLimitPerResponse(a, calls, maxToolCalls) == Len(calls) > maxToolCalls
ExceedsLimitUsedOnly(a, calls, maxToolCalls) == a.toolCallsUsed > maxToolCalls

\* toolCallsUsed + calls.length > req.maxToolCalls
ExceedsLimit(a, calls, maxToolCalls) == a.toolCallsUsed + Len(calls) > maxToolCalls

\* Mutant of StartCalls: the calls of a response are invoked last to first.
StartCallsReversed(a, ids) ==
    InvokeTool([a EXCEPT !.toolCallsUsed = @ + Len(ids),
                         !.pending = [k \in 1..Len(ids) |-> ids[Len(ids) + 1 - k]]])

StartCalls(a, ids) ==
    InvokeTool([a EXCEPT !.toolCallsUsed = @ + Len(ids), !.pending = ids])

\* openai.ts 137-153: the response of callOpenAi is in.
openaiOnResponse(a, resp, maxToolCalls) ==
    LET functionCalls == CallIds(a.httpRequests, resp.items)
    IN IF postJson(resp).threw THEN Throw(a, postJson(resp).error)
       ELSE IF Len(functionCalls) = 0 THEN Return(a, extractOutputText(resp))
       ELSE IF ExceedsLimit(a, functionCalls, maxToolCalls)
       THEN Throw(a, PlainError(ExceededMessage("OpenAI", maxToolCalls)))
       ELSE StartCalls(a, functionCalls)

\* anthropic.ts 75-117
anthropicOnResponse(a, resp, maxToolCalls) ==
    LET toolUses == CallIds(a.httpRequests, resp.items)
    IN IF postJson(resp).threw THEN Throw(a, postJson(resp).error)
       ELSE IF Len(toolUses) = 0 THEN Return(a, extractTextFromContent(resp.items))
       ELSE IF ExceedsLimit(a, toolUses, maxToolCalls)
       THEN Throw(a, PlainError(ExceededMessage("Anthropic", maxToolCalls)))
       ELSE StartCalls(a, toolUses)

\* Mutant of googleOnResponse: at the limit the adapter returns what it has
\* instead of throwing.
googleOnResponseReturnsAtLimit(a, resp, maxToolCalls) ==
    LET functionCalls == CallIds(a.httpRequests, resp.items)
    IN IF postJson(resp).threw THEN Throw(a, postJson(resp).error)
       ELSE IF Len(functionCalls) = 0 \/ ExceedsLimit(a, functionCalls, maxToolCalls)
       THEN Return(a, extractTextFromContent(resp.items))
       ELSE StartCalls(a, functionCalls)

\* google.ts (part_003 885-920)
googleOnResponse(a, resp, maxToolCalls) ==
    LET functionCalls == CallIds(a.httpRequests, resp.items)
    IN IF postJson(resp).threw THEN Throw(a, postJson(resp).error)
       ELSE IF Len(functionCalls) = 0 THEN Return(a, extractTextFromContent(resp.items))
       ELSE IF ExceedsLimit(a, functionCalls, maxToolCalls)
       THEN Throw(a, PlainError(ExceededMessage("Google", maxToolCalls)))
       ELSE StartCalls(a, functionCalls)

OnResponse(a, provider, resp, maxToolCalls) ==
    CASE provider = "openai" -> openaiOnResponse(a, resp, maxToolCalls)
      [] provider = "anthropic" -> anthropicOnResponse(a, resp, maxToolCalls)
      [] OTHER -> googleOnResponse(a, resp, maxToolCalls)

OkTrace(id, result) ==
    [id |-> id, status |-> "ok", result |-> result, errorCode |-> "", errorMessage |-> ""]
ErrorTrace(id, error) ==
    [id |-> id, status |-> "error", result |-> JUndef, errorCode |-> "TOOL_EXECUTION_ERROR",
     errorMessage |-> error.message]

\* Mutant of OnToolRejected: the adapter records the error trace and goes on
\* with the calls that are left.
OnToolRejectedContinues(a, error) ==
    IF Len(a.pending) > 1
    THEN InvokeTool([a EXCEPT !.trace = Append(@, ErrorTrace(Head(a.pending), error)),
                              !.pending = Tail(@)])
    ELSE SendRequest([a EXCEPT !.trace = Append(@, ErrorTrace(Head(a.pending), error)),
                               !.pending = <<>>])

\* Mutant of OnToolRejected: the adapter throws a new Error built from the
\* message instead of the error it caught.
OnToolRejectedWrapped(a, error) ==
    [a EXCEPT !.phase = "threw",
              !.trace = Append(@, ErrorTrace(Head(a.pending), error)),
              !.error = PlainError(error.message)]

\* The catch block of the for loop: one error trace, then "throw error".
OnToolRejected(a, error) ==
    [a EXCEPT !.phase = "threw",
              !.trace = Append(@, ErrorTrace(Head(a.pending), error)),
              !.error = error]

\* The try block of the for loop after "await req.invokeTool(...)": one ok
\* trace; then the next call of the response, or the next request when the
\* response has none left.
OnToolResolved(a, result) ==
    LET traced == [a EXCEPT !.trace = Append(@, OkTrace(Head(a.pending), result)),
                            !.pending = Tail(@)]
    IN IF traced.pending # <<>> THEN InvokeTool(traced) ELSE SendRequest(traced)

OnToolSettled(a, settled) ==
    IF settled.ok THEN OnToolResolved(a, settled.result) ELSE OnToolRejected(a, settled.error)

(***************************************************************************)
(* utils.ts: redactSensitive.  The sensitive substrings of the model are   *)
(* single atoms of a string; the three replacements run in source order.   *)
(***************************************************************************)
RedactChar(c) ==
    CASE c = "a@b.co" -> "[REDACTED_EMAIL]"
      [] c = "+1 555 010 0100" -> "[REDACTED_PHONE]"
      [] c = "4111111111111111" -> "[REDACTED_PHONE]"
      [] c = "123456789012" -> "[REDACTED_PHONE]"
      [] OTHER -> c

RECURSIVE redactSensitive(_)
redactSensitive(value) ==
    CASE value.t \in {"null", "undefined"} -> JNull
      [] value.t = "string" -> JStr(SeqMap(value.s, RedactChar))
      [] value.t = "array" -> JArr([i \in DOMAIN value.a |-> redactSensitive(value.a[i])])
      [] value.t = "object" ->
            JObj([i \in DOMAIN value.o |-> <<value.o[i][1], redactSensitive(value.o[i][2])>>])
      [] OTHER -> value

(***************************************************************************)
(* JavaScript numbers as far as runPool reads them: undefined, NaN,        *)
(* Infinity, or the rational num / den.                                    *)
(***************************************************************************)
NumUndefined == [k |-> "undefined", num |-> 0, den |-> 1]
NumNaN == [k |-> "NaN", num |-> 0, den |-> 1]
NumInfinity == [k |-> "Infinity", num |-> 0, den |-> 1]
Num(n, d) == [k |-> "finite", num |-> n, den |-> d]

DefaultConcurrency == 4

\* runConfig.concurrency ?? 4
OrDefault(x) == IF x.k = "undefined" THEN Num(DefaultConcurrency, 1) ELSE x

MathFloor(x) == IF x.k = "finite" THEN Num(x.num \div x.den, 1) ELSE x

\* Math.max(1, x) and Math.min(x, len) for x an integer, NaN or Infinity.
MathMax1(x) ==
    IF x.k = "finite" THEN Num(IF x.num > 1 THEN x.num ELSE 1, 1) ELSE x
MathMin(x, len) ==
    CASE x.k = "finite" -> Num(IF x.num < len THEN x.num ELSE len, 1)
      [] x.k = "Infinity" -> Num(len, 1)
      [] OTHER -> x

\* Array.from({ length: x }): ToLength(NaN) is 0.
ArrayFromLength(x) == IF x.k = "finite" /\ x.num > 0 THEN x.num ELSE 0

(***************************************************************************)
(* runSuite.ts: the per-case pipeline.                                     *)
(***************************************************************************)
hashCaseId(caseId) == "sha256:" \o caseId

DatasetRow(i) ==
    [caseId |-> "case-" \o ToString(i),
     expected |-> JObj(<< <<"k", JStr(IF i = 1 THEN <<"a", "b">> ELSE <<"b">>)>> >>)]

Dataset(n) == [i \in 1..n |-> DatasetRow(i)]

makeEmptyAssertionResult ==
    [passed |-> FALSE, checks |-> <<>>, missingKeys |-> <<>>, unexpectedKeys |-> <<>>]

JoinComma(keys) ==
    LET J[i \in 0..Len(keys)] ==
            IF i = 0 THEN ""
            ELSE IF i = 1 THEN keys[1]
            ELSE J[i - 1] \o "," \o keys[i]
    IN J[Len(keys)]

\* The new Array(n) slot that was never assigned.
Hole == [status |-> "<empty>"]

\* runSuite.ts 148-170: the catch block.
ErrorResult(item, error) ==
    LET code == IF error.class = "ToolRunnerError" THEN error.code ELSE "CASE_ERROR"
    IN [hashedCaseId |-> hashCaseId(item.caseId),
        rawCaseId |-> "[HASHED]",
        status |-> "error",
        schemaValid |-> FALSE,
        assertionsPassed |-> FALSE,
        assertionResult |-> makeEmptyAssertionResult,
        errors |-> <<code \o ":" \o toErrorMessage(error)>>,
        output |-> JNull,
        redactedOutput |-> JNull,
        expected |-> item.expected,
        toolTrace |-> <<>>]

\* Mutant of CaseStatus: the schema verdict is left out.
CaseStatusAssertionsOnly(schemaValid, assertionsPassed) ==
    IF assertionsPassed THEN "pass" ELSE "fail"

\* runSuite.ts 126-127
CaseStatus(schemaValid, assertionsPassed) ==
    IF schemaValid /\ assertionsPassed THEN "pass" ELSE "fail"

\* Mutant of CaseErrors: the schema errors are left out.
CaseErrorsWithoutSchema(schemaResult, assertionResult) ==
    SeqMap(SeqFilter(assertionResult.checks, LAMBDA check : ~check.passed),
           LAMBDA check : check.field \o ":" \o check.op \o ":" \o check.message)
        \o (IF Len(assertionResult.missingKeys) > 0
            THEN <<"missing keys: " \o JoinComma(assertionResult.missingKeys)>>
            ELSE <<>>)
        \o (IF Len(assertionResult.unexpectedKeys) > 0
            THEN <<"unexpected keys: " \o JoinComma(assertionResult.unexpectedKeys)>>
            ELSE <<>>)

\* runSuite.ts 110-125: the errors of a case that did not throw.
CaseErrors(schemaResult, assertionResult) ==
    schemaResult.errors
        \o SeqMap(SeqFilter(assertionResult.checks, LAMBDA check : ~check.passed),
                  LAMBDA check : check.field \o ":" \o check.op \o ":" \o check.message)
        \o (IF Len(assertionResult.missingKeys) > 0
            THEN <<"missing keys: " \o JoinComma(assertionResult.missingKeys)>>
            ELSE <<>>)
        \o (IF Len(assertionResult.unexpectedKeys) > 0
            THEN <<"unexpected keys: " \o JoinComma(assertionResult.unexpectedKeys)>>
            ELSE <<>>)

\* Mutant of BuildResult: output is redacted as well.
BuildResultRedactsOutput(item, output, toolTrace, cfg, schemaResult, assertionResult) ==
    IF assertionResult.threw
    THEN ErrorResult(item, PlainError("Invalid regular expression: /(/: Unterminated group"))
    ELSE [hashedCaseId |-> hashCaseId(item.caseId),
          rawCaseId |-> "[HASHED]",
          status |-> CaseStatus(schemaResult.valid, assertionResult.passed),
          schemaValid |-> schemaResult.valid,
          assertionsPassed |-> assertionResult.passed,
          assertionResult |-> [passed |-> assertionResult.passed,
                               checks |-> assertionResult.checks,
                               missingKeys |-> assertionResult.missingKeys,
                               unexpectedKeys |-> assertionResult.unexpectedKeys],
          errors |-> CaseErrors(schemaResult, assertionResult),
          output |-> IF cfg.redactInReports THEN redactSensitive(output) ELSE output,
          redactedOutput |-> IF cfg.redactInReports THEN redactSensitive(output) ELSE output,
          expected |-> item.expected,
          toolTrace |-> IF cfg.includeToolTrace THEN toolTrace ELSE <<>>]

\* runSuite.ts 108-147: the rest of the try block once the adapter returned.
BuildResult(item, output, toolTrace, cfg, schemaResult, assertionResult) ==
    IF assertionResult.threw
    THEN ErrorResult(item, PlainError("Invalid regular expression: /(/: Unterminated group"))
    ELSE [hashedCaseId |-> hashCaseId(item.caseId),
          rawCaseId |-> "[HASHED]",
          status |-> CaseStatus(schemaResult.valid, assertionResult.passed),
          schemaValid |-> schemaResult.valid,
          assertionsPassed |-> assertionResult.passed,
          assertionResult |-> [passed |-> assertionResult.passed,
                               checks |-> assertionResult.checks,
                               missingKeys |-> assertionResult.missingKeys,
                               unexpectedKeys |-> assertionResult.unexpectedKeys],
          errors |-> CaseErrors(schemaResult, assertionResult),
          output |-> output,
          redactedOutput |-> IF cfg.redactInReports THEN redactSensitive(output) ELSE output,
          expected |-> item.expected,
          toolTrace |-> IF cfg.includeToolTrace THEN toolTrace ELSE <<>>]

OutputResult(item, output, toolTrace, cfg) ==
    BuildResult(item, output, toolTrace, cfg, validateSchema(cfg.schema, output),
                evaluateAssertions(output, item.expected, cfg.assertionSpec))

\* Mutant of runCase: no try / catch around the pipeline.
runCaseWithoutCatch(a, item, cfg) ==
    IF a.phase = "threw"
    THEN [threw |-> TRUE, value |-> Hole]
    ELSE [threw |-> FALSE, value |-> OutputResult(item, a.output, a.trace, cfg)]

\* How the worker callback of runSuite settles once the adapter's promise
\* settled: the try block, and the catch block for whatever it threw.
runCase(a, item, cfg) ==
    [threw |-> FALSE,
     value |-> IF a.phase = "threw" THEN ErrorResult(item, a.error)
               ELSE OutputResult(item, a.output, a.trace, cfg)]

summarize(cases) ==
    LET Count(st) == Cardinality({i \in DOMAIN cases : cases[i].status = st})
    IN [total |-> Len(cases), pass |-> Count("pass"), fail |-> Count("fail"),
        error |-> Count("error")]

(***************************************************************************)
(* utils.ts: runPool, and the worker callback runSuite hands to it.        *)
(***************************************************************************)
\* The worker callback up to its first await: the case is claimed by pool
\* worker w and provider.invokeWithTools is called.
StartCase(a, w, provider, environ) ==
    invokeWithTools([a EXCEPT !.claimedBy = @ \cup {w}], provider, environ)

\* One call of next() by logical worker w, up to its first await.  P holds
\* the cursor, the workers and the cases.
\* The index is read but the cursor is left where it was.
nextWithoutAdvance(P, w, n, provider, environ) ==
    IF P.cursor >= n
    THEN [P EXCEPT !.workers[w] = [pc |-> "done", index |-> P.cursor]]
    ELSE [P EXCEPT !.workers[w] = [pc |-> "run", index |-> P.cursor],
                   !.cs[P.cursor + 1] = StartCase(@, w, provider, environ)]

next(P, w, n, provider, environ) ==
    LET index == P.cursor
        claimed == [P EXCEPT !.cursor = @ + 1]
    IN IF index >= n
       THEN [claimed EXCEPT !.workers[w] = [pc |-> "done", index |-> index]]
       ELSE [claimed EXCEPT !.workers[w] = [pc |-> "run", index |-> index],
                            !.cs[index + 1] = StartCase(@, w, provider, environ)]

\* Array.from({ length }, () => next()): the workers start one after the
\* other, each running to its first await.
StartWorkers(P, count, n, provider, environ) ==
    LET F[w \in 0..count] ==
            IF w = 0 THEN P ELSE next(F[w - 1], w, n, provider, environ)
    IN F[count]

\* Math.min(capped, items.length) as the length of the workers array.
WorkerCount(concurrency, n) ==
    LET capped == MathMax1(MathFloor(concurrency))
    IN ArrayFromLength(MathMin(capped, n))

(***************************************************************************)
(* Inputs.                                                                 *)
(***************************************************************************)
ConcurrencyValues ==
    {NumUndefined, NumNaN, NumInfinity, Num(0, 1), Num(5, 2)}

Matcher(op, value, expectedPath) == [op |-> op, value |-> value, expectedPath |-> expectedPath]

AssertStrict ==
    [requiredKeys |-> <<"k">>, allowAdditionalKeys |-> FALSE, variableFields |-> <<>>,
     fieldMatchers |-> << << <<"k">>, <<Matcher("equals", JUndef, <<>>)>> >> >>]
AssertRegex ==
    [requiredKeys |-> <<>>, allowAdditionalKeys |-> TRUE, variableFields |-> <<>>,
     fieldMatchers |-> << << <<"k">>, <<Matcher("regex", JStr(<<"(">>), <<>>)>> >> >>]
AssertLoose ==
    [requiredKeys |-> <<>>, allowAdditionalKeys |-> TRUE, variableFields |-> <<>>,
     fieldMatchers |-> << << <<"k">>, <<Matcher("exists", JUndef, <<>>),
                                        Matcher("matches", JUndef, <<>>)>> >> >>]
AssertOpen ==
    [requiredKeys |-> <<>>, allowAdditionalKeys |-> TRUE, variableFields |-> <<>>,
     fieldMatchers |-> << << <<"k">>, <<Matcher("regex", JStr(<<"a">>), <<>>)>> >> >>]

EnvNames == {"OPENAI_API_KEY", "ANTHROPIC_API_KEY", "GEMINI_API_KEY", "GOOGLE_API_KEY"}
EnvWithKeys == [name \in EnvNames |-> "sk-test"]
EnvEmpty == [name \in EnvNames |-> EnvUnset]

MakeConfig(n, maxToolCalls, schema, assertionSpec) ==
    [dataset |-> Dataset(n),
     maxToolCallsPerCase |-> maxToolCalls,
     schema |-> schema,
     assertionSpec |-> assertionSpec,
     redactInReports |-> TRUE,
     includeToolTrace |-> TRUE]

\* The suites run with several cases in the pool: one tool call per case is
\* allowed, so that a case can spend its allowance and can exceed it.
PoolConfigs ==
    {MakeConfig(n, 1, ObjectSchema(<<"k">>), AssertStrict) : n \in 0..MaxCases}

Response(items) == [http |-> "ok", items |-> items, output_text |-> NoOutputText]

PoolResponses ==
    {FailedResponse("non-2xx"),
     Response(<<>>), Response(<<TextItem(TextGood)>>), Response(<<TextItem(TextOther)>>),
     Response(<<CallItem>>), Response(<<OtherItem, CallItem, CallItem>>)}

PoolChildren ==
    {[event |-> "timeout", stdout |-> StdoutEmpty],
     [event |-> "close", stdout |-> StdoutFailCoded],
     [event |-> "close", stdout |-> StdoutOk]}

\* The suites run one case at a time.
CaseConfigs ==
    {MakeConfig(1, m, sch, asp) :
        m \in 0..MaxToolCalls,
        sch \in {ObjectSchema(<<"k">>), ObjectSchema(<<"z">>)},
        asp \in {AssertStrict, AssertRegex, AssertLoose, AssertOpen}}

(***************************************************************************)
(* toolRunner.ts: the ToolRunner constructor and the child's environment.  *)
(* A command is a sequence of atoms: a blank, a double quote, a slash, or  *)
(* a word without any of these.                                            *)
(***************************************************************************)
Blank == " "
Quote == "\""
Slash == "/"
CommandAtoms == {Blank, Quote, Slash, "node", "bun", "sh"}

ALLOWED_BINARIES == {<<"node">>, <<"bun">>, <<"deno">>}

\* The position of the next double quote after i, or 0.
NextQuote(command, i) ==
    IF \E j \in (i + 1)..Len(command) : command[j] = Quote
    THEN CHOOSE j \in (i + 1)..Len(command) :
             command[j] = Quote /\ \A k \in (i + 1)..(j - 1) : command[k] # Quote
    ELSE 0

Flush(parts, token) == IF token = <<>> THEN parts ELSE Append(parts, token)

\* command.match(/(?:[^\s"]+|"[^"]*")+/g): a match is a longest run of
\* words and closed quoted stretches; a quote that is never closed matches
\* nothing and ends the run before it.
RECURSIVE MatchParts(_, _, _, _)
MatchParts(command, i, token, parts) ==
    IF i > Len(command) THEN Flush(parts, token)
    ELSE IF command[i] = Blank THEN MatchParts(command, i + 1, <<>>, Flush(parts, token))
    ELSE IF command[i] # Quote
    THEN MatchParts(command, i + 1, Append(token, command[i]), parts)
    ELSE IF NextQuote(command, i) = 0
    THEN MatchParts(command, i + 1, <<>>, Flush(parts, token))
    ELSE MatchParts(command, NextQuote(command, i) + 1,
                    token \o SubSeq(command, i, NextQuote(command, i)), parts)

\* part.replace(/^"|"$/g, "")
StripLeadingQuote(part) == IF part # <<>> /\ Head(part) = Quote THEN Tail(part) ELSE part
StripTrailingQuote(part) ==
    IF part # <<>> /\ part[Len(part)] = Quote THEN SubSeq(part, 1, Len(part) - 1) ELSE part
StripQuotes(part) == StripTrailingQuote(StripLeadingQuote(part))

shellSplit(command) == SeqMap(MatchParts(command, 1, <<>>, <<>>), StripQuotes)

\* path.basename (POSIX): trailing slashes are dropped, then everything up
\* to the last slash.
RECURSIVE StripTrailingSlashes(_)
StripTrailingSlashes(p) ==
    IF p # <<>> /\ p[Len(p)] = Slash THEN StripTrailingSlashes(SubSeq(p, 1, Len(p) - 1)) ELSE p

AfterLastSlash(p) ==
    IF \E j \in DOMAIN p : p[j] = Slash
    THEN SubSeq(p, 1 + CHOOSE j \in DOMAIN p : p[j] = Slash /\ \A k \in (j + 1)..Len(p) : p[k] # Slash,
                Len(p))
    ELSE p

basename(p) == AfterLastSlash(StripTrailingSlashes(p))

\* The constructor over the tokens of the command.
\* Mutant of ConstructWith: the constructor without the allow-list check.
ConstructAnyBinary(commandParts) ==
    IF Len(commandParts) = 0
    THEN [threw |-> "INVALID_COMMAND", commandParts |-> <<>>]
    ELSE [threw |-> "", commandParts |-> commandParts]

ConstructWith(commandParts) ==
    IF Len(commandParts) = 0
    THEN [threw |-> "INVALID_COMMAND", commandParts |-> <<>>]
    ELSE IF basename(commandParts[1]) \notin ALLOWED_BINARIES
    THEN [threw |-> "COMMAND_NOT_ALLOWLISTED", commandParts |-> <<>>]
    ELSE [threw |-> "", commandParts |-> commandParts]

Construct(command) == ConstructWith(shellSplit(command))

\* process.env of the parent, over the variables of the model; an allow-list
\* is given by the set of the names it holds.
RunnerEnvKeys == {"PATH", "PROMPTMGR_BLOCK_NETWORK", "API_TOKEN", "HOME"}

ParentEnvs ==
    {[PATH |-> p, PROMPTMGR_BLOCK_NETWORK |-> b, API_TOKEN |-> t, HOME |-> h] :
        p \in {EnvUnset, "/usr/bin"}, b \in {EnvUnset, "false", "true"},
        t \in {EnvUnset, "s3cret"}, h \in {EnvUnset, "/root"}}

Allowlists == SUBSET {"PATH", "PROMPTMGR_BLOCK_NETWORK", "API_TOKEN"}

\* Mutant of buildSanitizedEnv: the parent's environment is passed on whole.
buildInheritedEnv(allowlist, parent) == parent

buildSanitizedEnv(allowlist, parent) ==
    [key \in RunnerEnvKeys |->
        IF key = "PATH" \/ key \in allowlist THEN parent[key] ELSE EnvUnset]

\* { ...buildSanitizedEnv(envAllowlist), PROMPTMGR_BLOCK_NETWORK: "true" }
SpawnEnv(allowlist, parent) ==
    [buildSanitizedEnv(allowlist, parent) EXCEPT !["PROMPTMGR_BLOCK_NETWORK"] = "true"]

(***************************************************************************)
(* runtime/tool-worker.mjs: the child process.  Its state is the record    *)
(*   mode       "execute" (spawned by ToolRunner.execute) | "direct" (run  *)
(*              by hand) | "none"                                          *)
(*   launch     "none" | "spawned" (by execute) | "failed" (spawn error) | *)
(*              "direct"                                                   *)
(*   binary     the executable spawn was called with                       *)
(*   env, toolName, toolsModulePath, stdin   what it was started with      *)
(*   scenario   what the tools module and the handler do: the module is    *)
(*              missing, fails to load, lacks handlers or the tool; the    *)
(*              handler returns 1, returns nothing, returns a BigInt,      *)
(*              throws an Error, throws an object without a prototype,     *)
(*              awaits fetch, awaits fetch and catches, sets               *)
(*              process.exitCode = 1 and returns, prints null or 1 and     *)
(*              calls process.exit(0), logs to stdout and returns, or      *)
(*              never settles                                              *)
(*   pc         "start" | "stdin" | "import" | "handler" | "exited"        *)
(*   shim       blockNetwork() has run                                     *)
(*   writes     calls of writeResponse;  out: the lines on its stdout      *)
(*   delivered  lines of out the parent has received as data events        *)
(*   exit       "running" | "0" | "1" | "SIGKILL"                          *)
(*   netUsed    the handler reached a network entry point that works       *)
(*   shimAtImport, shimAtHandler   "n/a", or whether the shim was in place *)
(*              ("installed" | "absent") when the module was imported /    *)
(*              the handler was invoked                                    *)
(***************************************************************************)
ModuleScenarios == {"moduleMissing", "importThrows", "handlersMissing", "toolMissing"}

HandlerScenarios ==
    {"return", "returnNothing", "returnUnserializable", "throwError", "throwOpaque",
     "fetch", "fetchCaught", "exitCode", "printNull", "printNumber", "log", "hang",
     "returnLeavesTimer"}

Scenarios == ModuleScenarios \cup HandlerScenarios

NoChild ==
    [mode |-> "none", launch |-> "none", binary |-> <<>>, env |-> [key \in RunnerEnvKeys |-> EnvUnset], toolName |-> "",
     toolsModulePath |-> "", stdin |-> "open", scenario |-> "return", pc |-> "start",
     shim |-> FALSE, writes |-> 0, out |-> <<>>, delivered |-> 0, exit |-> "running",
     netUsed |-> FALSE, shimAtImport |-> "n/a", shimAtHandler |-> "n/a"]

\* JSON.stringify of an error payload and of a success payload.
ErrorLine(code, message) ==
    "{\"ok\":false,\"error\":{\"code\":\"" \o code \o "\",\"message\":\"" \o message \o "\"}}"

NetworkBlockedMessage == "Network access is blocked in PromptManager tool subprocess."

\* A value a handler or the runtime throws: an Error with a message, or a
\* value String() cannot convert (an object without a prototype).
ThrownError(message) == [stringable |-> TRUE, message |-> message]
ThrownOpaque == [stringable |-> FALSE, message |-> ""]

writeResponse(c, line) == [c EXCEPT !.out = Append(@, line), !.writes = @ + 1]

ProcessExit(c, code) == [c EXCEPT !.pc = "exited", !.exit = code]

\* writeResponse({ ok: false, error }); process.exit(1)
WorkerFail(c, code, message) == ProcessExit(writeResponse(c, ErrorLine(code, message)), "1")

\* The catch block: the message is error.message or String(error); when
\* String(error) throws, the async function rejects, nothing is written and
\* the unhandled rejection ends the process with status 1.
WorkerCatch(c, thrown) ==
    IF thrown.stringable THEN WorkerFail(c, "TOOL_EXECUTION_ERROR", thrown.message)
    ELSE ProcessExit(c, "1")

\* Mutant of WorkerStart: the shim is installed only when the variable is
\* set to "true".
WorkerStartShimOnDemand(c) ==
    IF c.toolsModulePath = "" \/ c.toolName = ""
    THEN WorkerFail(c, "INVALID_WORKER_ARGS", "Missing --tools-module or --tool.")
    ELSE [c EXCEPT !.shim = (c.env["PROMPTMGR_BLOCK_NETWORK"] = "true"), !.pc = "stdin"]

\* Mutant of WorkerStart: every value other than "true" disables the shim.
WorkerStartShimOnlyIfTrue(c) ==
    IF c.toolsModulePath = "" \/ c.toolName = ""
    THEN WorkerFail(c, "INVALID_WORKER_ARGS", "Missing --tools-module or --tool.")
    ELSE [c EXCEPT !.shim = (c.env["PROMPTMGR_BLOCK_NETWORK"] \in {EnvUnset, "true"}),
                   !.pc = "stdin"]

\* tool-worker.mjs 343-358: up to "await readStdin()".
WorkerStart(c) ==
    IF c.toolsModulePath = "" \/ c.toolName = ""
    THEN WorkerFail(c, "INVALID_WORKER_ARGS", "Missing --tools-module or --tool.")
    ELSE [c EXCEPT !.shim = (c.env["PROMPTMGR_BLOCK_NETWORK"] # "false"), !.pc = "stdin"]

\* 359-375: stdin has ended; up to "await import(moduleUrl)".
WorkerRead(c) ==
    IF c.stdin = "malformed"
    THEN WorkerCatch(c, ThrownError("Unexpected token o in JSON at position 1"))
    ELSE IF c.scenario = "moduleMissing"
    THEN WorkerFail(c, "TOOLS_MODULE_NOT_FOUND", "Tools module not found: /work/" \o c.toolsModulePath)
    ELSE [c EXCEPT !.pc = "import", !.shimAtImport = IF c.shim THEN "installed" ELSE "absent"]

\* 375-405: the import has settled; up to "await handler(args, context)".
WorkerImport(c) ==
    CASE c.scenario = "importThrows" -> WorkerCatch(c, ThrownError("Unexpected identifier"))
      [] c.scenario = "handlersMissing" ->
            WorkerFail(c, "HANDLERS_MISSING", "Tools module must export a 'handlers' object.")
      [] c.scenario = "toolMissing" ->
            WorkerFail(c, "TOOL_NOT_FOUND", "No handler exported for tool '" \o c.toolName \o "'.")
      [] OTHER -> [c EXCEPT !.pc = "handler", !.shimAtHandler = IF c.shim THEN "installed" ELSE "absent"]

\* writeResponse({ ok: true, result }) and the end of the program: the
\* process ends with process.exitCode, 0 unless the handler set it.
WorkerSucceed(c, line, code) == ProcessExit(writeResponse(c, line), code)

\* 405-416: the handler has settled (a handler that hangs never does).
HandlerSettle(c) ==
    CASE c.scenario = "return" -> WorkerSucceed(c, StdoutOk, "0")
      [] c.scenario = "returnNothing" -> WorkerSucceed(c, StdoutOkBare, "0")
      [] c.scenario = "returnUnserializable" ->
            WorkerCatch(c, ThrownError("Do not know how to serialize a BigInt"))
      [] c.scenario = "throwError" -> WorkerCatch(c, ThrownError("boom"))
      [] c.scenario = "throwOpaque" -> WorkerCatch(c, ThrownOpaque)
      [] c.scenario = "fetch" ->
            IF c.shim THEN WorkerCatch(c, ThrownError(NetworkBlockedMessage))
            ELSE WorkerSucceed([c EXCEPT !.netUsed = TRUE], StdoutOk, "0")
      [] c.scenario = "fetchCaught" ->
            IF c.shim THEN WorkerSucceed(c, StdoutOkBare, "0")
            ELSE WorkerSucceed([c EXCEPT !.netUsed = TRUE], StdoutOk, "0")
      [] c.scenario = "exitCode" -> WorkerSucceed(c, StdoutOk, "1")
      [] c.scenario = "returnLeavesTimer" ->
            \* nothing ends the process while the handler's interval is pending
            [writeResponse(c, StdoutOk) EXCEPT !.pc = "lingering"]
      [] c.scenario = "printNull" -> ProcessExit([c EXCEPT !.out = Append(@, "null")], "0")
      [] c.scenario = "printNumber" -> ProcessExit([c EXCEPT !.out = Append(@, "1")], "0")
      [] c.scenario = "log" -> WorkerSucceed([c EXCEPT !.out = Append(@, "debug")], StdoutOk, "0")
      [] OTHER -> c

(***************************************************************************)
(* ToolRunner.execute in detail.  The runner's state is the record         *)
(*   command, allowlist, parent   the configured command, envAllowlist and *)
(*              the parent's process.env                                   *)
(*   toolName   the tool execute is called for                             *)
(*   ctor       the result of the constructor ("unbuilt" before it ran)    *)
(*   exec       the promise: "idle" | "pending" | "resolved" | "rejected"  *)
(*   outcome    what it settled with;  settledBy: the callback that did    *)
(*   stdout     the lines collected from data events                       *)
(*   timer      "unset" | "armed" | "fired" | "cleared"                    *)
(*   killSent   child.kill("SIGKILL") was called                           *)
(*   errorSeen, closeSeen   the child's error / close event was handled    *)
(*   uncaught   the close handler threw                                    *)
(*   exitAtSettle   the child's exit status when the promise settled       *)
(***************************************************************************)
RunnerWith(command, allowlist, parent, toolName) ==
    [command |-> command, allowlist |-> allowlist, parent |-> parent, toolName |-> toolName,
     ctor |-> [threw |-> "unbuilt", commandParts |-> <<>>],
     exec |-> "idle", outcome |-> Resolved(JUndef), settledBy |-> "",
     stdout |-> <<>>, timer |-> "unset", killSent |-> FALSE, errorSeen |-> FALSE,
     closeSeen |-> FALSE, uncaught |-> FALSE, exitAtSettle |-> ""]

DefaultParent ==
    [key \in RunnerEnvKeys |->
        CASE key = "PATH" -> "/usr/bin" [] key = "HOME" -> "/root" [] OTHER -> EnvUnset]

NoRunner == RunnerWith(<<>>, {}, DefaultParent, "")

\* The (code, message) pairs of the error payloads the worker writes.
WorkerErrors ==
    {[code |-> "INVALID_WORKER_ARGS", message |-> "Missing --tools-module or --tool."],
     [code |-> "TOOLS_MODULE_NOT_FOUND", message |-> "Tools module not found: /work/tools.mjs"],
     [code |-> "HANDLERS_MISSING", message |-> "Tools module must export a 'handlers' object."],
     [code |-> "TOOL_NOT_FOUND", message |-> "No handler exported for tool 'lookup'."],
     [code |-> "TOOL_EXECUTION_ERROR", message |-> "Unexpected identifier"],
     [code |-> "TOOL_EXECUTION_ERROR", message |-> "Do not know how to serialize a BigInt"],
     [code |-> "TOOL_EXECUTION_ERROR", message |-> "boom"],
     [code |-> "TOOL_EXECUTION_ERROR", message |-> NetworkBlockedMessage]}

\* JSON.parse(text): a worker payload, the JSON literals null and 1, or a
\* SyntaxError.  kind is "object", "null", "number" or "invalid".
ParseStdout(text) ==
    IF text = "null" THEN [kind |-> "null", value |-> ParseWorkerResponse(text)]
    ELSE IF text = "1" THEN [kind |-> "number", value |-> ParseWorkerResponse(text)]
    ELSE IF \E e \in WorkerErrors : ErrorLine(e.code, e.message) = text
    THEN [kind |-> "object",
          value |-> LET e == CHOOSE e \in WorkerErrors : ErrorLine(e.code, e.message) = text
                    IN [parsed |-> TRUE, ok |-> FALSE, code |-> e.code, message |-> e.message,
                        result |-> JUndef]]
    ELSE [kind |-> IF ParseWorkerResponse(text).parsed THEN "object" ELSE "invalid",
          value |-> ParseWorkerResponse(text)]

\* The promise settles once: resolve and reject after that do nothing.
Settle(r, outcome, by, exit) ==
    IF r.exec # "pending" THEN r
    ELSE [r EXCEPT !.exec = IF outcome.ok THEN "resolved" ELSE "rejected",
                   !.outcome = outcome, !.settledBy = by, !.exitAtSettle = exit]

clearTimeout(r) == [r EXCEPT !.timer = IF @ = "armed" THEN "cleared" ELSE @]

\* Mutant of OnTimer: the timer callback rejects without killing the child.
OnTimerWithoutKill(r, exit) ==
    Settle([r EXCEPT !.timer = "fired"],
           Rejected(ToolRunnerError("TOOL_TIMEOUT",
                                    "Tool '" \o r.toolName \o "' timed out after 1000ms.")),
           "timer", exit)

\* toolRunner.ts 87-90: the timer callback.
OnTimer(r, exit) ==
    Settle([r EXCEPT !.timer = "fired", !.killSent = TRUE],
           Rejected(ToolRunnerError("TOOL_TIMEOUT",
                                    "Tool '" \o r.toolName \o "' timed out after 1000ms.")),
           "timer", exit)

\* Mutant of OnError: the handler rejects and leaves the timer armed.
OnErrorKeepsTimer(r, message) ==
    Settle([r EXCEPT !.errorSeen = TRUE],
           Rejected(ToolRunnerError("TOOL_PROCESS_ERROR", message)), "error", "")

\* 143-154: child.stdin.write(JSON.stringify(...)) threw.
OnStdinError(r, message) ==
    Settle(clearTimeout(r), Rejected(ToolRunnerError("TOOL_INPUT_ERROR", message)), "stdin", "")

\* 99-102: the child's "error" event.
OnError(r, message) ==
    Settle([clearTimeout(r) EXCEPT !.errorSeen = TRUE],
           Rejected(ToolRunnerError("TOOL_PROCESS_ERROR", message)), "error", "")

\* 107-140: what the close handler does with the trimmed stdout.  Reading
\* parsed.ok of the value null throws a TypeError out of the handler; of a
\* number it is undefined.
CloseOutcome(toolName, text, parsed) ==
    IF text = ""
    THEN Rejected(ToolRunnerError("TOOL_EMPTY_RESPONSE",
                                  "Tool '" \o toolName \o "' returned no output. stderr="))
    ELSE IF parsed.kind = "invalid"
    THEN Rejected(ToolRunnerError("TOOL_INVALID_RESPONSE",
                                  "Tool '" \o toolName \o "' returned invalid JSON: " \o text))
    ELSE IF parsed.kind = "number" \/ ~parsed.value.ok
    THEN Rejected(ToolRunnerError(
             IF parsed.kind = "object" /\ parsed.value.code # "" THEN parsed.value.code
             ELSE "TOOL_EXECUTION_ERROR",
             IF parsed.kind = "object" /\ parsed.value.message # "" THEN parsed.value.message
             ELSE "Tool '" \o toolName \o "' failed without an error message."))
    ELSE Resolved(IF parsed.value.result # JUndef THEN parsed.value.result ELSE JNull)

\* 104-141: the child's "close" event, with the child's exit status (which
\* the handler does not look at).
OnCloseWith(r, exit, text) ==
    IF ParseStdout(text).kind = "null"
    THEN [clearTimeout(r) EXCEPT !.closeSeen = TRUE, !.uncaught = TRUE]
    ELSE Settle([clearTimeout(r) EXCEPT !.closeSeen = TRUE],
                CloseOutcome(r.toolName, text, ParseStdout(text)), "close", exit)

\* stdout.trim() is the collected lines joined by the newlines between them.
OnClose(r, exit) == OnCloseWith(r, exit, JoinLines(r.stdout))

(***************************************************************************)
(* providers/registry.ts: the module's adapter map and its                 *)
(* builtinsRegistered flag.  An adapter is what its factory closes over:   *)
(* the key variable and the base URL.                                      *)
(***************************************************************************)
NotSet == "<undefined>"

NoAdapter == [id |-> "", keyEnv |-> "", baseUrl |-> ""]

DefaultBaseUrl(provider) ==
    CASE provider = "openai" -> "https://api.openai.com/v1"
      [] provider = "anthropic" -> "https://api.anthropic.com/v1"
      [] OTHER -> "https://generativelanguage.googleapis.com/v1beta"

\* createOpenAiAdapter, createAnthropicAdapter, createGoogleAdapter
createAdapter(provider, providerConfig) ==
    [id |-> provider,
     keyEnv |-> IF providerConfig.apiKeyEnv = NotSet THEN DefaultKeyEnv(provider)
                ELSE providerConfig.apiKeyEnv,
     baseUrl |-> IF providerConfig.baseUrl = NotSet THEN DefaultBaseUrl(provider)
                 ELSE providerConfig.baseUrl]

NoRegistry == [adapters |-> [p \in Providers |-> NoAdapter], builtinsRegistered |-> FALSE]

registerProvider(reg, adapter) == [reg EXCEPT !.adapters[adapter.id] = adapter]

clearProvidersForTests(reg) == NoRegistry

RegisterAll(reg, providers) ==
    registerProvider(
        registerProvider(
            registerProvider(reg, createAdapter("openai", providers["openai"])),
            createAdapter("anthropic", providers["anthropic"])),
        createAdapter("google", providers["google"]))

\* registry.get(providerId); the lookup throws when nothing is registered,
\* which is NoAdapter here.
getProvider(reg, providerId) == reg.adapters[providerId]

\* Mutant of registerBuiltinProviders: an id that has an adapter keeps it.
registerBuiltinProvidersIfAbsent(reg, providers) ==
    IF reg.builtinsRegistered THEN reg
    ELSE [adapters |-> [p \in Providers |->
                           IF reg.adapters[p] # NoAdapter THEN reg.adapters[p]
                           ELSE createAdapter(p, providers[p])],
          builtinsRegistered |-> TRUE]

\* Mutant of registerBuiltinProviders: the flag is not consulted.
registerBuiltinProvidersAgain(reg, providers) ==
    [RegisterAll(reg, providers) EXCEPT !.builtinsRegistered = TRUE]

registerBuiltinProviders(reg, providers) ==
    IF reg.builtinsRegistered THEN reg
    ELSE [RegisterAll(reg, providers) EXCEPT !.builtinsRegistered = TRUE]

\* The library call last made: the function, its argument, the registry it
\* found, and (history) the configuration of the registering call.
NoCall == [fn |-> "", arg |-> <<>>, before |-> NoRegistry, first |-> <<>>]

(***************************************************************************)
(* The state machine.                                                      *)
(***************************************************************************)
\* What the environment of a case did so far: the calls of the last
\* response and the adapter's counters when it arrived, the responses
\* without a tool call seen, what the last execute call rejected with, the
\* requests answered (accepted by postJson or not), and the ids of the tool
\* calls in the order the provider returned them.
NoHistory ==
    [responses |-> 0, lastCalls |-> 0, usedBefore |-> 0, invokedBefore |-> 0,
     zeroCallResponses |-> 0, toolError |-> NoError, answered |-> 0, returned |-> <<>>]

InitWith(runConfigs, configs, environs) ==
    /\ runConfig \in runConfigs
    /\ config \in configs
    /\ env \in environs
    /\ runPc = "init"
    /\ cursor = 0
    /\ workers = <<>>
    /\ results = <<>>
    /\ cs = <<>>
    /\ hist = <<>>
    /\ report = [summary |-> summarize(<<>>), cases |-> <<>>]
    /\ runner = NoRunner
    /\ childProcess = NoChild
    /\ registry = NoRegistry
    /\ call = NoCall

N == Len(config.dataset)

\* runPool up to "await Promise.all(workers)": every worker claims its first
\* index and runs its case to the first await.
StartPool ==
    LET count == IF N = 0 THEN 0 ELSE WorkerCount(OrDefault(runConfig.concurrency), N)
        P0 == [cursor |-> 0,
               workers |-> [w \in 1..count |-> [pc |-> "new", index |-> -1]],
               cs |-> [i \in 1..N |-> Unclaimed]]
        P == StartWorkers(P0, count, N, runConfig.provider, env)
    IN /\ cursor' = P.cursor
       /\ workers' = P.workers
       /\ cs' = P.cs
       /\ results' = [i \in 1..N |-> Hole]
       /\ hist' = [i \in 1..N |-> NoHistory]

\* runSuite up to "await runPool(...)", and runPool up to "await
\* Promise.all(workers)".
StartRun ==
    /\ runPc = "init"
    /\ StartPool
    /\ runPc' = "pool"
    /\ UNCHANGED <<runConfig, config, env, report, runner, childProcess, registry, call>>

\* The response to the outstanding HTTP request of case i arrives (or the
\* request fails), and the adapter runs to its next await.
HttpRespond(i, resp) ==
    /\ runPc \in {"pool", "rejected"}
    /\ cs[i].phase = "http"
    /\ cs' = [cs EXCEPT ![i] = OnResponse(@, runConfig.provider, resp, config.maxToolCallsPerCase)]
    /\ hist' = [hist EXCEPT ![i] =
                   IF resp.http # "ok" THEN [@ EXCEPT !.answered = @ + 1]
                   ELSE [@ EXCEPT !.responses = @ + 1,
                                  !.answered = @ + 1,
                                  !.returned = @ \o CallIds(cs[i].httpRequests, resp.items),
                                  !.lastCalls = Len(getFunctionCalls(resp.items)),
                                  !.usedBefore = cs[i].toolCallsUsed,
                                  !.invokedBefore = cs[i].toolInvocations,
                                  !.zeroCallResponses =
                                      IF Len(getFunctionCalls(resp.items)) = 0 THEN @ + 1 ELSE @]]
    /\ UNCHANGED <<runConfig, config, env, runPc, cursor, workers, results, report, runner, childProcess, registry, call>>

\* The outstanding toolRunner.execute call of case i settles, and the
\* adapter runs to its next await.
ToolSettle(i, child) ==
    /\ runPc \in {"pool", "rejected"}
    /\ cs[i].phase = "tool"
    /\ \E settled \in {execute(child)} :
          /\ cs' = [cs EXCEPT ![i] = OnToolSettled(@, settled)]
          /\ hist' = [hist EXCEPT ![i].toolError = settled.error]
    /\ UNCHANGED <<runConfig, config, env, runPc, cursor, workers, results, report, runner, childProcess, registry, call>>

\* The pipeline of the case worker w holds has settled.  When the worker
\* callback resolves, runPool stores the CaseResult ("results[index] = await
\* worker(...)") and calls next() again; were it to reject, the rejection
\* would pass through next() and Promise.all to the caller of runSuite.
CaseSettle(w) ==
    /\ runPc \in {"pool", "rejected"}
    /\ workers[w].pc = "run"
    /\ cs[workers[w].index + 1].phase \in {"returned", "threw"}
    /\ \E i \in {workers[w].index + 1} :
         \E settled \in {runCase(cs[i], config.dataset[i], config)} :
           IF settled.threw
           THEN /\ runPc' = "rejected"
                /\ workers' = [workers EXCEPT ![w].pc = "rejected"]
                /\ cs' = [cs EXCEPT ![i].phase = "settled"]
                /\ UNCHANGED <<cursor, results>>
           ELSE \E P \in {next([cursor |-> cursor, workers |-> workers,
                                  cs |-> [cs EXCEPT ![i].phase = "settled"]],
                                 w, N, runConfig.provider, env)} :
                  /\ results' = [results EXCEPT ![i] = settled.value]
                  /\ cursor' = P.cursor
                  /\ workers' = P.workers
                  /\ cs' = P.cs
                  /\ UNCHANGED runPc
    /\ UNCHANGED <<runConfig, config, env, report, hist, runner, childProcess, registry, call>>

\* Promise.all(workers) resolved: runPool returns results and runSuite
\* builds the report.
Finish ==
    /\ runPc = "pool"
    /\ \A w \in DOMAIN workers : workers[w].pc = "done"
    /\ report' = [summary |-> summarize(results), cases |-> results]
    /\ runPc' = "resolved"
    /\ UNCHANGED <<runConfig, config, env, cursor, workers, results, cs, hist, runner, childProcess, registry, call>>

NextWith(responses, children) ==
    \/ StartRun
    \/ \E i \in DOMAIN cs, resp \in responses : HttpRespond(i, resp)
    \/ \E i \in DOMAIN cs, child \in children : ToolSettle(i, child)
    \/ \E w \in DOMAIN workers : CaseSettle(w)
    \/ Finish

\* Several cases in the pool: every adapter and concurrency value, over the
\* responses and child behaviours that decide the course of a case.
Init ==
    InitWith([provider : Providers, concurrency : ConcurrencyValues],
             PoolConfigs, {EnvWithKeys, EnvEmpty})

Next == NextWith(PoolResponses, PoolChildren)

Spec == Init /\ [][Next]_vars

\* One case: every adapter, schema, assertion spec, response and child
\* behaviour.
CaseInit ==
    InitWith([provider : Providers, concurrency : {NumUndefined}],
             CaseConfigs, {EnvWithKeys, EnvEmpty})

CaseNext == NextWith(Responses, ChildBehaviours)

CaseSpec == CaseInit /\ [][CaseNext]_vars

\* One case under every environment of the key variables: unset, empty, or
\* holding a key.
KeyEnvs == [EnvNames -> {EnvUnset, "", "sk-test"}]

KeyInit ==
    InitWith([provider : Providers, concurrency : {NumUndefined}],
             {MakeConfig(1, 1, ObjectSchema(<<"k">>), AssertStrict)}, KeyEnvs)

KeySpec == KeyInit /\ [][Next]_vars

\* The greatest whole concurrency a run is given.
MaxConcurrency == 3

\* Several cases in the pool under every whole concurrency from 1 on.
WholeInit ==
    InitWith([provider : Providers, concurrency : {Num(c, 1) : c \in 1..MaxConcurrency}],
             PoolConfigs, {EnvWithKeys})

WholeSpec == WholeInit /\ [][Next]_vars

poolVars == <<runConfig, config, env, runPc, cursor, workers, results, cs, report, hist>>

\* No suite is running.
PoolIdle ==
    /\ runConfig = [provider |-> "openai", concurrency |-> NumUndefined]
    /\ config = MakeConfig(0, 1, ObjectSchema(<<"k">>), AssertStrict)
    /\ env = EnvEmpty
    /\ runPc = "idle"
    /\ cursor = 0
    /\ workers = <<>>
    /\ results = <<>>
    /\ cs = <<>>
    /\ hist = <<>>
    /\ report = [summary |-> summarize(<<>>), cases |-> <<>>]

(***************************************************************************)
(* The provider registry, call by call.                                    *)
(***************************************************************************)
ProviderConfigs == [apiKeyEnv : {NotSet, "MY_KEY"}, baseUrl : {NotSet, "http://localhost"}]

ProvidersConfigs == [Providers -> ProviderConfigs]

RegistryInit ==
    /\ PoolIdle
    /\ runner = NoRunner
    /\ childProcess = NoChild
    /\ registry = NoRegistry
    /\ call = NoCall

RegisterBuiltins(providers) ==
    /\ registry' = registerBuiltinProviders(registry, providers)
    /\ call' = [fn |-> "registerBuiltinProviders", arg |-> providers, before |-> registry,
                first |-> IF registry.builtinsRegistered THEN call.first ELSE providers]
    /\ UNCHANGED <<poolVars, runner, childProcess>>

ClearProviders ==
    /\ registry' = clearProvidersForTests(registry)
    /\ call' = [fn |-> "clearProvidersForTests", arg |-> <<>>, before |-> registry,
                first |-> <<>>]
    /\ UNCHANGED <<poolVars, runner, childProcess>>

RegistryNext ==
    \/ \E providers \in ProvidersConfigs : RegisterBuiltins(providers)
    \/ ClearProviders

RegistrySpec == RegistryInit /\ [][RegistryNext]_vars

(***************************************************************************)
(* diffRuns.ts.  A report is its suite id and its cases; of a case diffRuns *)
(* reads hashedCaseId and status.                                          *)
(***************************************************************************)
Statuses == {"pass", "fail", "error"}

ReportCases == [hashedCaseId : {"a", "b"}, status : Statuses]

Reports ==
    {[suiteId |-> id, cases |-> cases] :
        id \in {"suite"}, cases \in SeqsUpTo(ReportCases, MaxReportCases)}

\* new Map(cases.map((item) => [item.hashedCaseId, item])): its keys, in
\* the order of their first insertion ...
RECURSIVE MapKeys(_)
MapKeys(cases) ==
    IF Len(cases) = 0 THEN <<>>
    ELSE IF cases[Len(cases)].hashedCaseId \in Range(MapKeys(SubSeq(cases, 1, Len(cases) - 1)))
    THEN MapKeys(SubSeq(cases, 1, Len(cases) - 1))
    ELSE Append(MapKeys(SubSeq(cases, 1, Len(cases) - 1)), cases[Len(cases)].hashedCaseId)

\* ... and map.get(id): the last case inserted under the key.
MapHas(cases, id) == \E i \in DOMAIN cases : cases[i].hashedCaseId = id

MapGet(cases, id) ==
    cases[CHOOSE i \in DOMAIN cases :
             /\ cases[i].hashedCaseId = id
             /\ \A j \in DOMAIN cases : cases[j].hashedCaseId = id => j <= i]

\* new Set([...baselineMap.keys(), ...candidateMap.keys()]), in iteration order
UnionKeys(left, right) == left \o SelectSeq(right, LAMBDA id : id \notin Range(left))

\* Mutant of statusRank: fail ranks below error.
statusRankFailLast(status) ==
    CASE status = "pass" -> 2
      [] status = "fail" -> 0
      [] OTHER -> 1

statusRank(status) ==
    CASE status = "pass" -> 2
      [] status = "fail" -> 1
      [] OTHER -> 0

\* Mutant of Classify: equal statuses are not set apart.
ClassifyByRankOnly(left, right) ==
    IF statusRank(left.status) > statusRank(right.status) THEN "regression"
    ELSE "improvement"

\* diffRuns.ts 28-45: what the loop does with an id both maps hold.
Classify(left, right) ==
    IF left.status = right.status THEN "unchanged"
    ELSE IF statusRank(left.status) > statusRank(right.status) THEN "regression"
    ELSE "improvement"

DiffEntry(baseline, candidate, id) ==
    [hashedCaseId |-> id,
     baselineStatus |-> MapGet(baseline.cases, id).status,
     candidateStatus |-> MapGet(candidate.cases, id).status]

\* The ids of the loop that get past "if (!left || !right) continue" and
\* fall in the class given.
IdsOfClass(baseline, candidate, ids, class) ==
    SelectSeq(ids, LAMBDA id :
        /\ MapHas(baseline.cases, id)
        /\ MapHas(candidate.cases, id)
        /\ Classify(MapGet(baseline.cases, id), MapGet(candidate.cases, id)) = class)

DiffOver(baseline, candidate, ids) ==
    [baselineSuiteId |-> baseline.suiteId,
     candidateSuiteId |-> candidate.suiteId,
     totalCompared |-> Len(ids),
     regressions |-> [i \in DOMAIN IdsOfClass(baseline, candidate, ids, "regression") |->
                        DiffEntry(baseline, candidate,
                                  IdsOfClass(baseline, candidate, ids, "regression")[i])],
     improvements |-> [i \in DOMAIN IdsOfClass(baseline, candidate, ids, "improvement") |->
                         DiffEntry(baseline, candidate,
                                   IdsOfClass(baseline, candidate, ids, "improvement")[i])],
     unchanged |-> Len(IdsOfClass(baseline, candidate, ids, "unchanged"))]

diffRuns(baseline, candidate) ==
    DiffOver(baseline, candidate,
             UnionKeys(MapKeys(baseline.cases), MapKeys(candidate.cases)))

NoDiff ==
    [baselineSuiteId |-> "", candidateSuiteId |-> "", totalCompared |-> 0,
     regressions |-> <<>>, improvements |-> <<>>, unchanged |-> 0]

DiffInit ==
    /\ PoolIdle
    /\ runner = NoRunner
    /\ childProcess = NoChild
    /\ registry = NoRegistry
    /\ \E baseline \in Reports, candidate \in Reports :
          call = [fn |-> "diffRuns", baseline |-> baseline, candidate |-> candidate,
                  done |-> FALSE, result |-> NoDiff]

\* diffRuns(baseline, candidate) is called and returns.
DiffRuns ==
    /\ call.fn = "diffRuns"
    /\ ~call.done
    /\ call' = [call EXCEPT !.done = TRUE, !.result = diffRuns(call.baseline, call.candidate)]
    /\ UNCHANGED <<poolVars, runner, childProcess, registry>>

DiffSpec == DiffInit /\ [][DiffRuns]_vars

(***************************************************************************)
(* evaluateAssertions applied to bounded outputs, expected values and      *)
(* assertion specs.                                                        *)
(***************************************************************************)
AssertOutputs ==
    {JStr(<<"a">>), JObj(<<>>), JObj(<< <<"k", JNum(1)>> >>),
     JObj(<< <<"k", JNum(1)>>, <<"x", JNum(2)>> >>),
     JObj(<< <<"constructor", JNum(1)>> >>)}

AssertExpected == {JObj(<< <<"k", JNum(1)>>, <<"other", JNum(2)>> >>), JNull}

AssertMatchers ==
    {Matcher(op, value, expectedPath) :
        op \in {"equals", "exists"}, value \in {JUndef, JNum(2)},
        expectedPath \in {<<>>, <<"$expected", "other">>, <<"other">>}}
    \cup {Matcher("regex", JStr(<<"(">>), <<>>)}

FieldMatcherSets ==
    {<<>>}
    \cup {<< << <<"k">>, <<m>> >> >> : m \in AssertMatchers}
    \cup {<< << <<"k">>, <<m, Matcher("absent", JUndef, <<>>)>> >>,
             << <<"x">>, <<Matcher("exists", JUndef, <<>>)>> >> >> : m \in AssertMatchers}

AssertSpecs ==
    [requiredKeys : {<<>>, <<"k">>, <<"k", "constructor">>},
     allowAdditionalKeys : BOOLEAN,
     variableFields : {<<>>, <<"x">>},
     fieldMatchers : FieldMatcherSets]

AssertInit ==
    /\ PoolIdle
    /\ runner = NoRunner
    /\ childProcess = NoChild
    /\ registry = NoRegistry
    /\ \E output \in AssertOutputs, expectedOutput \in AssertExpected, spec \in AssertSpecs :
          call = [fn |-> "evaluateAssertions", output |-> output,
                  expected |-> expectedOutput, spec |-> spec, done |-> FALSE,
                  result |-> evaluateAssertions(JNull, JNull, AssertOpen)]

\* evaluateAssertions(output, expected, spec) is called and returns or throws.
EvaluateAssertions ==
    /\ call.fn = "evaluateAssertions"
    /\ ~call.done
    /\ call' = [call EXCEPT !.done = TRUE,
                            !.result = evaluateAssertions(call.output, call.expected, call.spec)]
    /\ UNCHANGED <<poolVars, runner, childProcess, registry>>

AssertSpec == AssertInit /\ [][EvaluateAssertions]_vars

(***************************************************************************)
(* runCheck applied to every operator over bounded actual and expected     *)
(* values.                                                                 *)
(***************************************************************************)
ObjAB == JObj(<< <<"a", JNum(1)>>, <<"b", JNum(2)>> >>)
ObjBA == JObj(<< <<"b", JNum(2)>>, <<"a", JNum(1)>> >>)

CheckActuals ==
    {JUndef, JNull, JNum(0), JNum(1), JNum(2), JStr(<<>>), JStr(<<"a">>),
     JStr(<<"a", "b">>), JStr(<<"1">>), JArr(<<>>), JArr(<<JNum(1)>>),
     JArr(<<JStr(<<"a">>), ObjAB>>), JObj(<<>>), ObjAB, ObjBA}

NumericRanges ==
    {JObj(<< <<"min", JNum(1)>> >>), JObj(<< <<"max", JNum(1)>> >>),
     JObj(<< <<"min", JNum(0)>>, <<"max", JNum(1)>> >>),
     JObj(<< <<"min", JNum(2)>>, <<"max", JNum(1)>> >>)}

CheckExpecteds ==
    CheckActuals \cup NumericRanges \cup {JArr(<<JNull, JNum(1), ObjBA>>), JArr(<<JArr(<<>>)>>)}

Operators == {"equals", "oneOf", "contains", "numericRange", "exists", "absent", "matches"}

CheckInit ==
    /\ PoolIdle
    /\ runner = NoRunner
    /\ childProcess = NoChild
    /\ registry = NoRegistry
    /\ \E op \in Operators, actual \in CheckActuals, expected \in CheckExpecteds :
          call = [fn |-> "runCheck", op |-> op, actual |-> actual, expected |-> expected,
                  done |-> FALSE, result |-> CheckOutcome(FALSE, "")]

\* runCheck(op, actual, expected) is called and returns or throws.
RunCheck ==
    /\ call.fn = "runCheck"
    /\ ~call.done
    /\ call' = [call EXCEPT !.done = TRUE,
                            !.result = runCheck(call.op, call.actual, call.expected)]
    /\ UNCHANGED <<poolVars, runner, childProcess, registry>>

CheckSpec == CheckInit /\ [][RunCheck]_vars

(***************************************************************************)
(* prompts.ts: loadPromptRecord over a prompt directory.  A version is the *)
(* sequence of the dot-separated parts of its text.                        *)
(***************************************************************************)
\* Number.parseInt(item, 10) || 0 on the parts of the model.
ParseIntOrZero(item) ==
    CASE item = "0" -> 0
      [] item = "1" -> 1
      [] item = "2" -> 2
      [] item = "10" -> 10
      [] item = "1rc" -> 1
      [] OTHER -> 0

PartAt(parts, i) == IF i \in DOMAIN parts THEN ParseIntOrZero(parts[i]) ELSE 0

RECURSIVE CompareFrom(_, _, _)
CompareFrom(a, b, i) ==
    IF i > Len(a) /\ i > Len(b) THEN 0
    ELSE IF PartAt(a, i) > PartAt(b, i) THEN 1
    ELSE IF PartAt(a, i) < PartAt(b, i) THEN -1
    ELSE CompareFrom(a, b, i + 1)

compareSemver(a, b) == CompareFrom(a, b, 1)

\* Array.prototype.sort(compareSemver): a stable sort.
InsertSorted(sorted, item) ==
    LET after == {i \in DOMAIN sorted : compareSemver(sorted[i], item) > 0}
        at == IF after = {} THEN Len(sorted) + 1
              ELSE CHOOSE i \in after : \A j \in after : i <= j
    IN SubSeq(sorted, 1, at - 1) \o <<item>> \o SubSeq(sorted, at, Len(sorted))

SortSemver(versions) ==
    LET F[i \in 0..Len(versions)] ==
            IF i = 0 THEN <<>> ELSE InsertSorted(F[i - 1], versions[i])
    IN F[Len(versions)]

NoVersion == <<>>

\* detectLatestVersion: the last of the sorted versions of the v*.md files;
\* undefined when there is none or readdir fails.
detectLatestVersion(dir) ==
    IF ~dir.exists \/ dir.files = <<>> THEN NoVersion
    ELSE SortSemver(dir.files)[Len(dir.files)]

\* detectVersionFromMeta: currentVersion, else the greatest of versions;
\* undefined when meta.json cannot be read or names neither.
detectVersionFromMeta(dir) ==
    IF ~dir.exists \/ ~dir.meta.present THEN NoVersion
    ELSE IF dir.meta.currentVersion # NoVersion THEN dir.meta.currentVersion
    ELSE IF dir.meta.versions # <<>>
    THEN SortSemver(dir.meta.versions)[Len(dir.meta.versions)]
    ELSE NoVersion

PromptBody(version) == <<"body of v", version>>

PromptResolved(version) ==
    [kind |-> "resolved", version |-> version, body |-> PromptBody(version), message |-> ""]

PromptRejected(message) ==
    [kind |-> "rejected", version |-> NoVersion, body |-> <<>>, message |-> message]

loadPromptRecord(dir) ==
    LET latest == detectLatestVersion(dir)
        version == IF latest # NoVersion THEN latest ELSE detectVersionFromMeta(dir)
    IN IF version = NoVersion THEN PromptRejected("No prompt version found")
       ELSE IF version \in Range(dir.files) THEN PromptResolved(version)
       ELSE PromptRejected("ENOENT: no such file or directory")

\* The most v*.md files a prompt directory holds.
MaxFiles == 2

VersionPool ==
    {<<"1">>, <<"1", "0">>, <<"1", "2">>, <<"1", "10">>, <<"1", "1rc">>,
     <<"2", "beta">>, <<"0", "9", "1">>}

FileLists ==
    {files \in UNION {[1..n -> VersionPool] : n \in 0..MaxFiles} :
        \A i, j \in DOMAIN files : i # j => files[i] # files[j]}

NoMeta == [present |-> FALSE, currentVersion |-> NoVersion, versions |-> <<>>]

Metas ==
    {NoMeta}
    \cup [present : {TRUE}, currentVersion : {NoVersion, <<"1", "0">>, <<"2", "beta">>},
          versions : {<<>>, << <<"1", "10">>, <<"1", "2">> >>}]

PromptDirs ==
    [exists : {TRUE}, files : FileLists, meta : Metas]
    \cup {[exists |-> FALSE, files |-> <<>>, meta |-> NoMeta]}

PromptInit ==
    /\ PoolIdle
    /\ runner = NoRunner
    /\ childProcess = NoChild
    /\ registry = NoRegistry
    /\ \E dir \in PromptDirs :
          call = [fn |-> "loadPromptRecord", dir |-> dir, done |-> FALSE,
                  result |-> PromptRejected("")]

\* loadPromptRecord(cwd, promptId) settles.
LoadPromptRecord ==
    /\ call.fn = "loadPromptRecord"
    /\ ~call.done
    /\ call' = [call EXCEPT !.done = TRUE, !.result = loadPromptRecord(call.dir)]
    /\ UNCHANGED <<poolVars, runner, childProcess, registry>>

PromptSpec == PromptInit /\ [][LoadPromptRecord]_vars

(***************************************************************************)
(* config.ts and the head of runSuite: the configuration is loaded, the    *)
(* suite and the model are resolved, the suite's files are loaded and the  *)
(* ToolRunner is built before runPool is called.                           *)
(***************************************************************************)
ConfigLoaded == ""

\* The configuration file of a run: whether a path was passed and the file
\* is there, its extension, whether it reads as JSON (or transpiles and
\* runs), and what it exports.
GoodFile ==
    [explicit |-> FALSE, found |-> TRUE, ext |-> ".json", parses |-> TRUE,
     isObject |-> TRUE, topLevelKeys |-> TRUE, suites |-> <<"s1">>,
     allProviders |-> TRUE, mode |-> "subprocess", command |-> <<"node">>,
     modelByProvider |-> Providers]

ConfigFiles ==
    {GoodFile}
    \cup {[GoodFile EXCEPT !.found = FALSE, !.explicit = e] : e \in BOOLEAN}
    \cup {[GoodFile EXCEPT !.ext = x] : x \in {".ts", ".yaml"}}
    \cup {[GoodFile EXCEPT !.ext = x, !.parses = FALSE] : x \in {".ts", ".json"}}
    \cup {[GoodFile EXCEPT !.isObject = FALSE], [GoodFile EXCEPT !.topLevelKeys = FALSE],
          [GoodFile EXCEPT !.suites = <<>>], [GoodFile EXCEPT !.allProviders = FALSE],
          [GoodFile EXCEPT !.mode = "inline"], [GoodFile EXCEPT !.modelByProvider = {}]}
    \cup {[GoodFile EXCEPT !.command = c] :
            c \in {<<>>, <<Blank>>, <<"sh">>, <<Slash, "node">>, <<"node", Blank, "sh">>,
                   <<"sh", Blank, "node">>, <<Quote, "node">>}}

\* findConfigPath: a path that was passed is not looked up.
findConfigPath(file) ==
    IF file.explicit \/ file.found THEN ConfigLoaded ELSE "No config file found"

assertConfig(file) ==
    IF ~file.isObject THEN "Config must export an object."
    ELSE IF ~file.topLevelKeys THEN "Config is missing required top-level keys"
    ELSE IF file.suites = <<>> THEN "Config.suites must be a non-empty array."
    ELSE IF ~file.allProviders THEN "Config.providers must include"
    ELSE IF file.mode # "subprocess" THEN "Config.toolRunner.mode must be 'subprocess'."
    ELSE IF file.command = <<>> THEN "Config.toolRunner.command is required."
    ELSE ConfigLoaded

\* loadConfig: the message it rejects with, or ConfigLoaded.
loadConfig(file) ==
    IF findConfigPath(file) # ConfigLoaded THEN findConfigPath(file)
    ELSE IF file.ext \notin {".json", ".ts"} THEN "Unsupported config extension"
    ELSE IF ~file.found THEN "ENOENT: no such file or directory"
    ELSE IF ~file.parses THEN "SyntaxError"
    ELSE assertConfig(file)

getSuite(file, suiteId) ==
    IF suiteId \in Range(file.suites) THEN ConfigLoaded ELSE "Unknown suite"

ModelUndefined == "<undefined>"

\* runConfig.model ?? suite.modelByProvider[providerId], and "if (!model)".
ResolveModel(file, model, providerId) ==
    LET resolved == IF model # ModelUndefined THEN model
                    ELSE IF providerId \in file.modelByProvider THEN "suite-model"
                    ELSE ModelUndefined
    IN IF resolved \in {ModelUndefined, ""} THEN "No model configured for provider"
       ELSE ConfigLoaded

SuiteProviders == [p \in Providers |-> [apiKeyEnv |-> NotSet, baseUrl |-> NotSet]]

SuiteCalls ==
    [fn : {"runSuite"}, step : {"loadConfig"}, file : ConfigFiles, suiteId : {"s1", "s2"},
     model : {ModelUndefined, "", "m1"}, loaders : {"resolve", "reject"}, error : {""}]

SuiteInit ==
    /\ runConfig \in [provider : Providers, concurrency : {NumUndefined}]
    /\ config = MakeConfig(1, 1, ObjectSchema(<<"k">>), AssertStrict)
    /\ env = EnvWithKeys
    /\ runPc = "setup"
    /\ cursor = 0
    /\ workers = <<>>
    /\ results = <<>>
    /\ cs = <<>>
    /\ hist = <<>>
    /\ report = [summary |-> summarize(<<>>), cases |-> <<>>]
    /\ runner = NoRunner
    /\ childProcess = NoChild
    /\ registry = NoRegistry
    /\ call \in SuiteCalls

\* runSuite throws (or the promise it awaits rejects): its promise rejects.
SuiteReject(message) ==
    /\ runPc' = "rejected"
    /\ call' = [call EXCEPT !.step = "rejected", !.error = message]

\* part_001 45-50: await loadConfig(cwd, runConfig.configPath).
SuiteLoadConfig ==
    /\ runPc = "setup"
    /\ call.step = "loadConfig"
    /\ IF loadConfig(call.file) # ConfigLoaded
       THEN SuiteReject(loadConfig(call.file))
       ELSE runPc' = runPc /\ call' = [call EXCEPT !.step = "resolve"]
    /\ UNCHANGED <<runConfig, config, env, cursor, workers, results, cs, report, hist,
                   runner, childProcess, registry>>

\* part_001 51-68: getSuite, registerBuiltinProviders, getProvider, the model,
\* and the five loaders are started.
SuiteResolve ==
    /\ runPc = "setup"
    /\ call.step = "resolve"
    /\ IF getSuite(call.file, call.suiteId) # ConfigLoaded
       THEN SuiteReject(getSuite(call.file, call.suiteId)) /\ UNCHANGED registry
       ELSE /\ registry' = registerBuiltinProviders(registry, SuiteProviders)
            /\ IF ResolveModel(call.file, call.model, runConfig.provider) # ConfigLoaded
               THEN SuiteReject(ResolveModel(call.file, call.model, runConfig.provider))
               ELSE runPc' = runPc /\ call' = [call EXCEPT !.step = "load"]
    /\ UNCHANGED <<runConfig, config, env, cursor, workers, results, cs, report, hist,
                   runner, childProcess>>

\* The pool is started before the ToolRunner is built.
SuiteStartPoolFirst ==
    /\ runPc = "setup"
    /\ call.step = "load"
    /\ IF call.loaders = "reject"
       THEN /\ SuiteReject("loader rejected")
            /\ UNCHANGED <<cursor, workers, results, cs, hist, runner>>
       ELSE /\ runner' = [runner EXCEPT !.command = call.file.command,
                                         !.ctor = Construct(call.file.command)]
            /\ StartPool
            /\ IF Construct(call.file.command).threw # ""
               THEN SuiteReject(Construct(call.file.command).threw)
               ELSE runPc' = "pool" /\ call' = [call EXCEPT !.step = "pool"]
    /\ UNCHANGED <<runConfig, config, env, report, childProcess, registry>>

\* part_001 62-73: the loaders settle, new ToolRunner(config.toolRunner, cwd),
\* and runPool up to "await Promise.all(workers)".
SuiteStart ==
    /\ runPc = "setup"
    /\ call.step = "load"
    /\ IF call.loaders = "reject"
       THEN /\ SuiteReject("loader rejected")
            /\ UNCHANGED <<cursor, workers, results, cs, hist, runner>>
       ELSE /\ runner' = [runner EXCEPT !.command = call.file.command,
                                         !.ctor = Construct(call.file.command)]
            /\ IF Construct(call.file.command).threw # ""
               THEN /\ SuiteReject(Construct(call.file.command).threw)
                    /\ UNCHANGED <<cursor, workers, results, cs, hist>>
               ELSE /\ StartPool
                    /\ runPc' = "pool"
                    /\ call' = [call EXCEPT !.step = "pool"]
    /\ UNCHANGED <<runConfig, config, env, report, childProcess, registry>>

SuiteNext ==
    \/ SuiteLoadConfig
    \/ SuiteResolve
    \/ SuiteStart
    \/ \E i \in DOMAIN cs, resp \in PoolResponses : HttpRespond(i, resp)
    \/ \E i \in DOMAIN cs, child \in PoolChildren : ToolSettle(i, child)
    \/ \E w \in DOMAIN workers : CaseSettle(w)
    \/ Finish

SuiteSpec == SuiteInit /\ [][SuiteNext]_vars

(***************************************************************************)
(* providers/*.ts: the conversation list of invokeWithTools (inputList,    *)
(* messages, contents).  An entry of a list, a block of a message and an   *)
(* output item of a response are records of one shape; the fields an       *)
(* entry does not have are empty.                                          *)
(***************************************************************************)
Entry(role, type, id, name, text, value, blocks) ==
    [role |-> role, type |-> type, id |-> id, name |-> name, text |-> text,
     value |-> value, blocks |-> blocks]

\* typeof x === "string" ? x : JSON.stringify(x)
StringOrJson(x) == IF x.t = "string" THEN x.s ELSE JSONStringify(x)

CaseInput == JObj(<< <<"q", JNum(1)>> >>)

\* The first entry: the case input as a user turn.
InitialTurn(provider) ==
    Entry("user", IF provider = "openai" THEN "input_text" ELSE "text", "", "",
          StringOrJson(CaseInput), JUndef, <<>>)

\* The items of a response: function calls (tool_use blocks, functionCall
\* parts) with their id and name, text, and items of another kind.
ItemCall(id, name) == Entry("", "call", id, name, <<>>, JUndef, <<>>)
ItemText == Entry("", "text", "", "", <<"done">>, JUndef, <<>>)
ItemOther == Entry("", "reasoning", "", "", <<"hm">>, JUndef, <<>>)

ConversationResponses ==
    {[http |-> "failed", items |-> <<>>],
     [http |-> "ok", items |-> <<>>],
     [http |-> "ok", items |-> <<ItemText>>],
     [http |-> "ok", items |-> <<ItemOther, ItemCall("c1", "lookup")>>],
     [http |-> "ok", items |-> <<ItemCall("c1", "lookup"), ItemOther>>],
     [http |-> "ok", items |-> <<ItemCall("c1", "lookup"), ItemCall("c2", "search")>>],
     [http |-> "ok", items |-> <<ItemCall("c2", "search"), ItemText, ItemCall("c1", "lookup")>>]}

ToolResults == {JStr(<<"r">>), JObj(<< <<"n", JNum(1)>> >>), JNull}

\* The most tool calls a conversation is allowed.
MaxTurns == 2

NoConversation ==
    [fn |-> "invokeWithTools", provider |-> "", maxToolCalls |-> 0, phase |-> "new",
     list |-> <<>>, sent |-> <<>>, received |-> <<>>, outcomes |-> <<>>, pending |-> <<>>,
     toolResults |-> <<>>, toolCallsUsed |-> 0, trace |-> <<>>]

\* The request body is built from the list and posted.
PostList(v) == [v EXCEPT !.phase = "http", !.sent = Append(@, v.list)]

\* invokeWithTools up to its first await.
ConversationStart(provider, maxToolCalls) ==
    PostList([NoConversation EXCEPT !.provider = provider, !.maxToolCalls = maxToolCalls,
                                    !.list = <<InitialTurn(provider)>>])

FunctionCallsOf(items) == SeqFilter(items, LAMBDA it : it.type = "call")

\* Only the function calls of a response are kept.
ListOnResponseCallsOnly(v, items) ==
    CASE v.provider = "openai" -> v.list \o FunctionCallsOf(items)
      [] v.provider = "anthropic" ->
            IF Len(FunctionCallsOf(items)) = 0
               \/ v.toolCallsUsed + Len(FunctionCallsOf(items)) > v.maxToolCalls
            THEN v.list
            ELSE Append(v.list, Entry("assistant", "", "", "", <<>>, JUndef,
                                      FunctionCallsOf(items)))
      [] OTHER -> v.list

\* The response is in: what each adapter does with its list before the
\* first tool call (openai.ts 137-153, anthropic.ts 85-113, part_003
\* 908-928).
ListOnResponse(v, items) ==
    CASE v.provider = "openai" -> v.list \o items
      [] v.provider = "anthropic" ->
            IF Len(FunctionCallsOf(items)) = 0
               \/ v.toolCallsUsed + Len(FunctionCallsOf(items)) > v.maxToolCalls
            THEN v.list
            ELSE Append(v.list, Entry("assistant", "", "", "", <<>>, JUndef, items))
      [] OTHER -> v.list

ConversationOnResponse(v, resp) ==
    IF resp.http # "ok" THEN [v EXCEPT !.phase = "threw"]
    ELSE \* the response and the list
         LET calls == FunctionCallsOf(resp.items)
             got == [v EXCEPT !.received = Append(@, resp.items),
                              !.outcomes = Append(@, <<>>),
                              !.list = ListOnResponse(v, resp.items)]
         IN IF Len(calls) = 0 THEN [got EXCEPT !.phase = "returned"]
            ELSE IF v.toolCallsUsed + Len(calls) > v.maxToolCalls
            THEN [got EXCEPT !.phase = "threw"]
            ELSE [got EXCEPT !.phase = "tool", !.toolCallsUsed = @ + Len(calls),
                             !.pending = calls, !.toolResults = <<>>]

\* The function response is added before its function call.
ListOnToolResultResponseFirst(v, toolCall, result) ==
    CASE v.provider = "openai" ->
            Append(v.list, Entry("", "function_call_output", toolCall.id, "",
                                 StringOrJson(result), JUndef, <<>>))
      [] v.provider = "anthropic" -> v.list
      [] OTHER ->
            v.list
            \o <<Entry("user", "functionResponse", "", toolCall.name, <<>>, result, <<>>),
                 Entry("model", "functionCall", toolCall.id, toolCall.name, <<>>, JUndef, <<>>)>>

\* req.invokeTool resolved for the head of pending: the entries the adapter
\* adds for it (openai.ts 170-177, anthropic.ts 130-134, part_003 941-964).
ListOnToolResult(v, toolCall, result) ==
    CASE v.provider = "openai" ->
            Append(v.list, Entry("", "function_call_output", toolCall.id, "",
                                 StringOrJson(result), JUndef, <<>>))
      [] v.provider = "anthropic" -> v.list
      [] OTHER ->
            v.list
            \o <<Entry("model", "functionCall", toolCall.id, toolCall.name, <<>>, JUndef, <<>>),
                 Entry("user", "functionResponse", "", toolCall.name, <<>>, result, <<>>)>>

\* Every tool result is posted as a user message of its own.
NextRequestMessagePerResult(v) ==
    PostList([v EXCEPT !.list = IF v.provider = "anthropic"
                                THEN @ \o [k \in DOMAIN v.toolResults |->
                                              Entry("user", "", "", "", <<>>, JUndef,
                                                    <<v.toolResults[k]>>)]
                                ELSE @])

\* The calls of the response are done: anthropic.ts 150-153 adds the user
\* message of tool results; the loop posts the next request.
NextRequest(v) ==
    PostList([v EXCEPT !.list = IF v.provider = "anthropic"
                                THEN Append(@, Entry("user", "", "", "", <<>>, JUndef,
                                                     v.toolResults))
                                ELSE @])

ConversationOnToolResolved(v, result) ==
    LET toolCall == Head(v.pending)
        done == [v EXCEPT !.trace = Append(@, "ok"),
                          !.outcomes[Len(v.outcomes)] = Append(@, result),
                          !.list = ListOnToolResult(v, toolCall, result),
                          !.toolResults =
                              IF v.provider = "anthropic"
                              THEN Append(@, Entry("", "tool_result", toolCall.id, "",
                                                   StringOrJson(result), JUndef, <<>>))
                              ELSE @,
                          !.pending = Tail(@)]
    IN IF Len(done.pending) = 0 THEN NextRequest(done) ELSE done

\* req.invokeTool rejected: the trace entry, and the error is thrown on.
ConversationOnToolRejected(v) ==
    [v EXCEPT !.trace = Append(@, "error"), !.phase = "threw"]

ConversationInit ==
    /\ PoolIdle
    /\ runner = NoRunner
    /\ childProcess = NoChild
    /\ registry = NoRegistry
    /\ call = NoConversation

Invoke(provider, maxToolCalls) ==
    /\ call.fn = "invokeWithTools"
    /\ call.phase = "new"
    /\ call' = ConversationStart(provider, maxToolCalls)
    /\ UNCHANGED <<poolVars, runner, childProcess, registry>>

ProviderResponds(resp) ==
    /\ call.fn = "invokeWithTools"
    /\ call.phase = "http"
    /\ call' = ConversationOnResponse(call, resp)
    /\ UNCHANGED <<poolVars, runner, childProcess, registry>>

ToolResolves(result) ==
    /\ call.fn = "invokeWithTools"
    /\ call.phase = "tool"
    /\ call' = ConversationOnToolResolved(call, result)
    /\ UNCHANGED <<poolVars, runner, childProcess, registry>>

ToolRejects ==
    /\ call.fn = "invokeWithTools"
    /\ call.phase = "tool"
    /\ call' = ConversationOnToolRejected(call)
    /\ UNCHANGED <<poolVars, runner, childProcess, registry>>

ConversationNext ==
    \/ \E provider \in Providers, maxToolCalls \in 1..MaxTurns : Invoke(provider, maxToolCalls)
    \/ \E resp \in ConversationResponses : ProviderResponds(resp)
    \/ \E result \in ToolResults : ToolResolves(result)
    \/ ToolRejects

ConversationSpec == ConversationInit /\ [][ConversationNext]_vars

(***************************************************************************)
(* Two runSuite calls of one process and the code that imports the         *)
(* registry, interleaved.  Of a run: where it is, the provider id of its   *)
(* runConfig, the adapter its "const provider" holds, what the registry    *)
(* held for that id when the run called registerBuiltinProviders           *)
(* (history), and the adapter each case was executed by (history).         *)
(***************************************************************************)
MaxRunCases == 2

Runs == {1, 2}

\* config.providers of the configuration file of each run.
RunProviders(r) ==
    IF r = 1 THEN SuiteProviders
    ELSE [p \in Providers |-> [apiKeyEnv |-> "MY_KEY", baseUrl |-> NotSet]]

\* Adapters the embedding code passes to registerProvider.
CustomAdapters ==
    {[id |-> p, keyEnv |-> "CUSTOM_KEY", baseUrl |-> "http://custom"] :
        p \in {"openai", "anthropic"}}

NoRun ==
    [pc |-> "idle", provider |-> "", adapter |-> NoAdapter,
     before |-> [builtinsRegistered |-> FALSE, adapter |-> NoAdapter],
     executedBy |-> <<>>]

\* Mutant of CaseAdapter: the adapter is looked up when the case starts.
CaseAdapterLookedUpPerCase(run, reg) == getProvider(reg, run.provider)

\* part_001 86: "await provider.invokeWithTools(...)", provider being the
\* constant of the enclosing runSuite call.
CaseAdapter(run, reg) == run.adapter

RunsInit ==
    /\ PoolIdle
    /\ runner = NoRunner
    /\ childProcess = NoChild
    /\ registry = NoRegistry
    /\ call = [fn |-> "runs", runs |-> [r \in Runs |-> NoRun]]

\* part_001 54-57: registerBuiltinProviders(config.providers) and
\* getProvider(runConfig.provider), in one synchronous stretch; the loaders
\* are awaited next.
RunSetup(r, providerId) ==
    /\ call.runs[r].pc \in {"idle", "done"}
    /\ registry' = registerBuiltinProviders(registry, RunProviders(r))
    /\ call' = [call EXCEPT !.runs[r] =
                    [pc |-> "loading", provider |-> providerId,
                     adapter |-> getProvider(registry', providerId),
                     before |-> [builtinsRegistered |-> registry.builtinsRegistered,
                                 adapter |-> getProvider(registry, providerId)],
                     executedBy |-> <<>>]]
    /\ UNCHANGED <<poolVars, runner, childProcess>>

\* part_001 73-86: a worker of the pool starts the next case.
RunCaseStart(r) ==
    /\ call.runs[r].pc \in {"loading", "pool"}
    /\ Len(call.runs[r].executedBy) < MaxRunCases
    /\ call' = [call EXCEPT !.runs[r].pc = "pool",
                            !.runs[r].executedBy =
                                Append(@, CaseAdapter(call.runs[r], registry))]
    /\ UNCHANGED <<poolVars, runner, childProcess, registry>>

\* The pool has settled and runSuite returns its report.
RunReturn(r) ==
    /\ call.runs[r].pc \in {"loading", "pool"}
    /\ call' = [call EXCEPT !.runs[r].pc = "done"]
    /\ UNCHANGED <<poolVars, runner, childProcess, registry>>

\* registry.ts 8-10, called by the embedding code.
UserRegisterProvider(adapter) ==
    /\ registry' = registerProvider(registry, adapter)
    /\ UNCHANGED <<poolVars, runner, childProcess, call>>

\* registry.ts 20-23, called by the embedding code.
UserClearProviders ==
    /\ registry' = clearProvidersForTests(registry)
    /\ UNCHANGED <<poolVars, runner, childProcess, call>>

RunsNext ==
    \/ \E r \in Runs, providerId \in Providers : RunSetup(r, providerId)
    \/ \E r \in Runs : RunCaseStart(r)
    \/ \E r \in Runs : RunReturn(r)
    \/ \E adapter \in CustomAdapters : UserRegisterProvider(adapter)
    \/ UserClearProviders

RunsSpec == RunsInit /\ [][RunsNext]_vars

(***************************************************************************)
(* The tool runner and its worker, event by event.                         *)
(***************************************************************************)
ExecuteChild(scenario) == [NoChild EXCEPT !.mode = "execute", !.scenario = scenario]

\* The worker started by hand: its own environment, flags and stdin.
DirectChild(blockNetwork, flags, stdin, scenario) ==
    [NoChild EXCEPT !.mode = "direct",
                    !.env = [DefaultParent EXCEPT !["PROMPTMGR_BLOCK_NETWORK"] = blockNetwork],
                    !.toolName = IF flags THEN "lookup" ELSE "",
                    !.toolsModulePath = IF flags THEN "tools.mjs" ELSE "",
                    !.stdin = stdin, !.scenario = scenario]

\* The inputs: every command with the default environment; every
\* allow-list and parent environment with the default command; every
\* worker scenario through execute; every worker scenario by hand.
ToolInputs ==
    {<<RunnerWith(command, {}, DefaultParent, "lookup"), ExecuteChild("return")>> :
        command \in SeqsUpTo(CommandAtoms, MaxCommand)}
    \cup {<<RunnerWith(<<"node">>, allowlist, parent, "lookup"), ExecuteChild("fetch")>> :
            allowlist \in Allowlists, parent \in ParentEnvs}
    \cup {<<RunnerWith(<<"node">>, {}, DefaultParent, toolName), ExecuteChild(scenario)>> :
            toolName \in {"lookup", ""}, scenario \in Scenarios}
    \cup {<<NoRunner, DirectChild(blockNetwork, flags, stdin, scenario)>> :
            blockNetwork \in {EnvUnset, "true", "false", "0", ""}, flags \in BOOLEAN,
            stdin \in {"json", "malformed", "empty"}, scenario \in Scenarios}

ToolInit ==
    /\ PoolIdle
    /\ \E input \in ToolInputs : runner = input[1] /\ childProcess = input[2]
    /\ registry = NoRegistry
    /\ call = NoCall

\* new ToolRunner(config, cwd)
NewToolRunner ==
    /\ childProcess.mode = "execute"
    /\ runner.ctor.threw = "unbuilt"
    /\ runner' = [runner EXCEPT !.ctor = Construct(runner.command)]
    /\ UNCHANGED <<poolVars, childProcess, registry, call>>

\* toolRunner.ts 71-82: spawn(binary, spawnArgs, { env }), which starts the
\* worker or fails (the child then emits "error").
Spawn(c, r, started) ==
    [c EXCEPT !.launch = IF started THEN "spawned" ELSE "failed",
              !.binary = r.ctor.commandParts[1],
              !.env = SpawnEnv(r.allowlist, r.parent),
              !.toolName = r.toolName, !.toolsModulePath = "tools.mjs", !.stdin = "json"]

\* runner.execute(toolName, ...) up to the return of the promise: spawn,
\* arm the timer, register the handlers, write and end stdin.  When the
\* write throws, the catch block clears the timer and rejects, and stdin
\* is left open with nothing written.
ExecuteCall(started, written) ==
    /\ runner.ctor.threw = ""
    /\ runner.exec = "idle"
    /\ runner' = IF written THEN [runner EXCEPT !.exec = "pending", !.timer = "armed"]
                 ELSE OnStdinError([runner EXCEPT !.exec = "pending", !.timer = "armed"],
                                   "Do not know how to serialize a BigInt")
    /\ childProcess' = [Spawn(childProcess, runner, started) EXCEPT
                            !.stdin = IF written THEN @ ELSE "unwritten"]
    /\ UNCHANGED <<poolVars, registry, call>>

\* node tool-worker.mjs ... by hand.
DirectLaunch ==
    /\ childProcess.mode = "direct"
    /\ childProcess.launch = "none"
    /\ childProcess' = [childProcess EXCEPT !.launch = "direct"]
    /\ UNCHANGED <<poolVars, runner, registry, call>>

Running == childProcess.launch \in {"spawned", "direct"} /\ childProcess.exit = "running"

StartWorker ==
    /\ Running /\ childProcess.pc = "start"
    /\ childProcess' = WorkerStart(childProcess)
    /\ UNCHANGED <<poolVars, runner, registry, call>>

\* readStdin() returns when stdin has ended.
ReadStdin ==
    /\ Running /\ childProcess.pc = "stdin"
    /\ childProcess.stdin # "unwritten"
    /\ childProcess' = WorkerRead(childProcess)
    /\ UNCHANGED <<poolVars, runner, registry, call>>

ImportModule ==
    /\ Running /\ childProcess.pc = "import"
    /\ childProcess' = WorkerImport(childProcess)
    /\ UNCHANGED <<poolVars, runner, registry, call>>

HandlerSettles ==
    /\ Running /\ childProcess.pc = "handler"
    /\ childProcess.scenario # "hang"
    /\ childProcess' = HandlerSettle(childProcess)
    /\ UNCHANGED <<poolVars, runner, registry, call>>

\* 92-94: a data event of child.stdout carries the next line.
StdoutData ==
    /\ childProcess.launch = "spawned"
    /\ ~runner.closeSeen
    /\ childProcess.delivered < Len(childProcess.out)
    /\ runner' = [runner EXCEPT !.stdout = Append(@, childProcess.out[childProcess.delivered + 1])]
    /\ childProcess' = [childProcess EXCEPT !.delivered = @ + 1]
    /\ UNCHANGED <<poolVars, registry, call>>

\* child.kill("SIGKILL") ends a child that is still running.
Kill(c) == IF c.exit = "running" THEN ProcessExit(c, "SIGKILL") ELSE c

\* The timer fires: it was armed and no handler has cleared it.
TimerFires ==
    /\ childProcess.launch = "spawned"
    /\ runner.timer = "armed"
    /\ runner' = OnTimer(runner, childProcess.exit)
    /\ childProcess' = IF OnTimer(runner, childProcess.exit).killSent
                       THEN Kill(childProcess) ELSE childProcess
    /\ UNCHANGED <<poolVars, registry, call>>

\* The "error" event of a child that could not be spawned.
SpawnError ==
    /\ childProcess.launch = "failed"
    /\ ~runner.errorSeen
    /\ runner' = OnError(runner, "spawn ENOENT")
    /\ UNCHANGED <<poolVars, childProcess, registry, call>>

\* The "close" event: the process has ended and its stdout has been read
\* to the end, or the spawn failed and "error" has been emitted.
ChildClose ==
    /\ ~runner.closeSeen
    /\ \/ /\ childProcess.launch = "spawned"
          /\ childProcess.exit # "running"
          /\ childProcess.delivered = Len(childProcess.out)
       \/ childProcess.launch = "failed" /\ runner.errorSeen
    /\ runner' = OnClose(runner, childProcess.exit)
    /\ UNCHANGED <<poolVars, childProcess, registry, call>>

ToolNext ==
    \/ NewToolRunner
    \/ \E started \in BOOLEAN, written \in BOOLEAN : ExecuteCall(started, written)
    \/ DirectLaunch
    \/ StartWorker
    \/ ReadStdin
    \/ ImportModule
    \/ HandlerSettles
    \/ StdoutData
    \/ TimerFires
    \/ SpawnError
    \/ ChildClose

ToolSpec == ToolInit /\ [][ToolNext]_vars

(***************************************************************************)
(* Properties.                                                             *)
(***************************************************************************)
Recorded(cases) == {i \in DOMAIN cases : cases[i] # Hole}

\* C1: in every report, a case result has status pass exactly when its
\* schemaValid and assertionsPassed are both true.
C1_StatusPassIffValidAndAsserted ==
    \A i \in Recorded(report.cases) :
        report.cases[i].status = "pass"
            <=> (report.cases[i].schemaValid /\ report.cases[i].assertionsPassed)

C1_Witness ==
    /\ runPc = "resolved"
    /\ \E i \in Recorded(report.cases) :
          /\ report.cases[i].status = "fail"
          /\ report.cases[i].assertionsPassed
          /\ ~report.cases[i].schemaValid

\* C2: in the report runSuite resolves with, summary.total is the number of
\* entries of cases and pass + fail + error is summary.total.
C2_SummaryCountsAddUp ==
    runPc = "resolved" =>
        /\ report.summary.total = Len(report.cases)
        /\ report.summary.pass + report.summary.fail + report.summary.error
               = report.summary.total

\* C3: every dataset index is claimed by exactly one pool worker, the
\* adapter's invokeWithTools is called exactly once for it, and the report
\* holds a CaseResult for it.
C3_OneClaimOneCallOneResult ==
    /\ \A i \in DOMAIN cs : Cardinality(cs[i].claimedBy) <= 1 /\ cs[i].invocations <= 1
    /\ runPc = "resolved" =>
          \A i \in 1..N :
              /\ Cardinality(cs[i].claimedBy) = 1
              /\ cs[i].invocations = 1
              /\ i \in Recorded(report.cases)

\* While the pool runs, either every worker is done (runPool returns) or
\* some worker holds a case whose pipeline is waiting for a response or a
\* tool, or is ready to be recorded.
RunCanProceed ==
    \/ \A w \in DOMAIN workers : workers[w].pc = "done"
    \/ \E w \in DOMAIN workers :
          /\ workers[w].pc = "run"
          /\ cs[workers[w].index + 1].phase \in {"http", "tool", "returned", "threw"}

\* C4: a case whose pipeline threw is recorded with status error, every
\* other case of the run is still run to its end and recorded, and the run
\* never rejects: until runSuite resolved it can always go on.
C4_ThrowStaysInItsCase ==
    /\ runPc # "rejected"
    /\ runPc = "pool" => RunCanProceed
    /\ runPc = "resolved" =>
          \A i \in DOMAIN cs :
              cs[i].error # NoError =>
                  /\ i \in Recorded(report.cases)
                  /\ report.cases[i].status = "error"
                  /\ \A j \in DOMAIN cs :
                        j \in Recorded(report.cases) /\ cs[j].phase = "settled"

C4_Witness ==
    /\ runPc = "resolved"
    /\ \E i, j \in Recorded(report.cases) :
          /\ cs[i].error # NoError
          /\ report.cases[i].status = "error"
          /\ report.cases[j].status = "pass"

\* C5: a case has status error exactly when its pipeline threw before the
\* provider produced a final output; a case whose provider returned a final
\* output is pass or fail.
C5_ErrorIffNoFinalOutput ==
    \A i \in Recorded(results) :
        results[i].status = "error" <=> cs[i].returnedAt = 0

\* C6: the result of a case whose pipeline threw has output and
\* redactedOutput null, the empty assertion result, no tool trace, and the
\* single errors entry "<code>:<message>", the code being the one of the
\* ToolRunnerError that execute rejected with, else CASE_ERROR.
ExceededMessages ==
    {ExceededMessage(name, config.maxToolCallsPerCase) : name \in {"OpenAI", "Anthropic", "Google"}}

CaseErrorMessages ==
    {MissingKeyMessage(p) : p \in Providers}
    \cup {"Provider request failed (503): busy", "Provider returned invalid JSON: busy",
          "Invalid regular expression: /(/: Unterminated group"}
    \cup ExceededMessages

C6_ErrorResultShape ==
    \A i \in Recorded(results) :
        results[i].status = "error" =>
            /\ results[i].output = JNull
            /\ results[i].redactedOutput = JNull
            /\ results[i].assertionResult
                   = [passed |-> FALSE, checks |-> <<>>, missingKeys |-> <<>>,
                      unexpectedKeys |-> <<>>]
            /\ results[i].toolTrace = <<>>
            /\ Len(results[i].errors) = 1
            /\ IF hist[i].toolError # NoError
               THEN results[i].errors[1]
                        = hist[i].toolError.code \o ":" \o hist[i].toolError.message
               ELSE results[i].errors[1] \in {"CASE_ERROR:" \o m : m \in CaseErrorMessages}

C6_Witness ==
    \E i \in Recorded(results) :
        /\ results[i].status = "error"
        /\ results[i].errors = <<"TOOL_NOT_FOUND:no handler">>
        /\ Len(cs[i].trace) = 2

\* C7: the array runPool returns has the length of items and its element i
\* is the result of processing items[i]; report.cases is in dataset order.
C7_ResultsInInputOrder ==
    runPc = "resolved" =>
        /\ Len(report.cases) = N
        /\ \A i \in 1..N :
              /\ i \in Recorded(report.cases)
              /\ report.cases[i].hashedCaseId = hashCaseId(config.dataset[i].caseId)
              /\ report.cases[i].expected = config.dataset[i].expected

\* C8: at every point of invokeWithTools, and in the trace reported, the
\* invokeTool calls made and the toolTrace entries recorded do not exceed
\* maxToolCalls.
C8_ToolCallsWithinLimit ==
    \A i \in DOMAIN cs :
        /\ cs[i].toolInvocations <= config.maxToolCallsPerCase
        /\ Len(cs[i].trace) <= config.maxToolCallsPerCase
        /\ i \in Recorded(results) =>
               Len(results[i].toolTrace) <= config.maxToolCallsPerCase

C8_Witness ==
    \E i \in DOMAIN cs :
        /\ config.maxToolCallsPerCase = MaxToolCalls
        /\ cs[i].phase = "returned"
        /\ Len(cs[i].trace) = MaxToolCalls
        /\ hist[i].responses > 2

\* C9: the calls of the last response, against the limit.
OverLimit(i) ==
    hist[i].lastCalls > 0 /\ hist[i].usedBefore + hist[i].lastCalls > config.maxToolCallsPerCase
WithinLimit(i) ==
    hist[i].lastCalls > 0 /\ hist[i].usedBefore + hist[i].lastCalls <= config.maxToolCallsPerCase
Attempted(i) == cs[i].toolInvocations - hist[i].invokedBefore

\* A response over the limit: the adapter throws, invokes none of its calls
\* and sends no further request.
NothingOverLimit(i) ==
    OverLimit(i) =>
        /\ cs[i].phase \in {"threw", "settled"}
        /\ cs[i].error.message \in ExceededMessages
        /\ Attempted(i) = 0
        /\ cs[i].httpRequests = hist[i].responses

\* C9 as claimed: a response over the limit has none of its calls invoked;
\* a response within the limit has all of its calls attempted.
C9_AllOrNothingAsClaimed ==
    \A i \in DOMAIN cs :
        /\ NothingOverLimit(i)
        /\ WithinLimit(i) /\ cs[i].phase # "tool" => Attempted(i) = hist[i].lastCalls

\* C9 (amended): a response over the limit has none of its calls invoked; a
\* response within the limit has its calls attempted one after the other,
\* all of them unless one rejects, which is then the last one attempted.
C9_AllOrNothingUntilRejection ==
    \A i \in DOMAIN cs :
        /\ NothingOverLimit(i)
        /\ WithinLimit(i) =>
              /\ Attempted(i) \in 1..hist[i].lastCalls
              /\ cs[i].phase # "tool" =>
                    \/ /\ Attempted(i) = hist[i].lastCalls
                       /\ hist[i].toolError = NoError
                    \/ /\ hist[i].toolError # NoError
                       /\ cs[i].error = hist[i].toolError
                       /\ Len(cs[i].trace) = hist[i].usedBefore + Attempted(i)
                       /\ cs[i].trace[Len(cs[i].trace)].status = "error"

C9_Witness ==
    \E i \in DOMAIN cs :
        /\ OverLimit(i)
        /\ hist[i].usedBefore > 0
        /\ hist[i].lastCalls <= config.maxToolCallsPerCase
        /\ cs[i].phase = "threw"

\* C10: invokeWithTools ends; it returns at the first response without a
\* tool call and nowhere else, it ends by throwing otherwise, and it sends
\* at most maxToolCalls + 1 requests.
Ended(i) == cs[i].phase \in {"returned", "threw", "settled"}

C10_Safety ==
    \A i \in DOMAIN cs :
        /\ cs[i].httpRequests <= config.maxToolCallsPerCase + 1
        /\ hist[i].zeroCallResponses <= 1
        /\ cs[i].returnedAt > 0 <=> hist[i].zeroCallResponses = 1
        /\ cs[i].returnedAt > 0 =>
              /\ hist[i].lastCalls = 0
              /\ cs[i].returnedAt = hist[i].responses
              /\ cs[i].error = NoError
        /\ Ended(i) /\ cs[i].returnedAt = 0 => cs[i].error # NoError

\* Every step of a running invokeWithTools ends it or adds to the requests
\* sent and the tools invoked, which C10_Safety and the limit bound.
Steps(a) == a.httpRequests + a.toolInvocations

C10_Step ==
    \A i \in DOMAIN cs :
        cs[i].phase \in {"http", "tool"} /\ cs'[i] # cs[i] =>
            /\ cs'[i].phase \in {"http", "tool", "returned", "threw"}
            /\ cs'[i].phase \in {"http", "tool"} => Steps(cs'[i]) = Steps(cs[i]) + 1

C10_LoopTerminates ==
    /\ [](C10_Safety /\ \A i \in DOMAIN cs :
                            cs[i].toolInvocations <= config.maxToolCallsPerCase)
    /\ [][C10_Step]_vars

C10_Witness ==
    \E i \in DOMAIN cs :
        /\ cs[i].returnedAt = MaxToolCalls + 1
        /\ runConfig.provider = "google"

\* C11: within one invokeWithTools call at most one HTTP request or tool
\* invocation is outstanding; the tool calls are invoked one at a time in
\* the order the provider returned them, each after the previous one
\* settled; a request is sent only when every call of the previous response
\* has completed; the toolTrace entries are in invocation order.
OutstandingHttp(i) == cs[i].httpRequests - hist[i].answered
OutstandingTools(i) == cs[i].toolInvocations - Len(cs[i].trace)

C11_SequentialPerCase ==
    \A i \in DOMAIN cs :
        /\ OutstandingHttp(i) \in {0, 1}
        /\ OutstandingTools(i) \in {0, 1}
        /\ OutstandingHttp(i) + OutstandingTools(i) <= 1
        /\ OutstandingHttp(i) = 1 <=> cs[i].phase = "http"
        /\ OutstandingTools(i) = 1 <=> cs[i].phase = "tool"
        /\ Len(cs[i].trace) <= Len(hist[i].returned)
        /\ \A j \in DOMAIN cs[i].trace : cs[i].trace[j].id = hist[i].returned[j]
        /\ cs[i].phase = "tool" =>
              /\ cs[i].pending # <<>>
              /\ Head(cs[i].pending) = hist[i].returned[cs[i].toolInvocations]
        /\ cs[i].phase = "http" =>
              /\ cs[i].pending = <<>>
              /\ Len(cs[i].trace) = cs[i].toolCallsUsed
              /\ Len(cs[i].trace) = Len(hist[i].returned)

C11_Witness ==
    \E i \in DOMAIN cs :
        /\ cs[i].phase = "http"
        /\ cs[i].httpRequests = 2
        /\ Len(cs[i].trace) = 2
        /\ cs[i].trace[1].id = "call_1_1"
        /\ cs[i].trace[2].id = "call_1_2"

\* C12: once req.invokeTool rejected for a tool call, the adapter has
\* appended one error trace entry for that call (the only error entry of
\* the trace), no other tool call is invoked and no HTTP request is sent
\* afterwards, and the adapter rejects with the error it received.
ErrorEntries(trace) == {j \in DOMAIN trace : trace[j].status = "error"}

C12_ToolRejectionEndsTheCall ==
    \A i \in DOMAIN cs :
        hist[i].toolError # NoError =>
            /\ cs[i].phase \in {"threw", "settled"}
            /\ cs[i].error = hist[i].toolError
            /\ ErrorEntries(cs[i].trace) = {Len(cs[i].trace)}
            /\ cs[i].trace[Len(cs[i].trace)].id = hist[i].returned[cs[i].toolInvocations]
            /\ cs[i].trace[Len(cs[i].trace)].errorMessage = hist[i].toolError.message
            /\ cs[i].toolInvocations = Len(cs[i].trace)
            /\ cs[i].httpRequests = hist[i].answered

C12_Witness ==
    \E i \in DOMAIN cs :
        /\ hist[i].toolError.code = "TOOL_TIMEOUT"
        /\ cs[i].phase = "threw"
        /\ hist[i].lastCalls = 2
        /\ cs[i].toolInvocations = 1
        /\ runConfig.provider = "anthropic"

\* C13: invokeWithTools rejects with the adapter's "Missing ... API key"
\* error exactly when its key source yields no key, and then before any
\* HTTP request or tool invocation; the key source of the Google adapter
\* yields no key only when neither GEMINI_API_KEY nor GOOGLE_API_KEY holds
\* a non-empty value.
Supplies(name) == env[name] \notin {EnvUnset, ""}

NoKeySupplied ==
    IF runConfig.provider = "google"
    THEN ~Supplies("GEMINI_API_KEY") /\ ~Supplies("GOOGLE_API_KEY")
    ELSE ~Supplies(DefaultKeyEnv(runConfig.provider))

C13_MissingKeyRejectsFirst ==
    \A i \in DOMAIN cs :
        cs[i].invocations > 0 =>
            /\ cs[i].error.message = MissingKeyMessage(runConfig.provider) <=> NoKeySupplied
            /\ NoKeySupplied => cs[i].httpRequests = 0 /\ cs[i].toolInvocations = 0

\* C14: the ToolRunner constructor throws INVALID_COMMAND exactly when the
\* command tokenizes to nothing, and COMMAND_NOT_ALLOWLISTED exactly when
\* there is a first token whose basename is not node, bun or deno; execute
\* runs only on a constructed runner, and every child it spawns (or fails
\* to spawn) is for a binary whose basename is on the allow-list.
C14_OnlyAllowlistedBinaries ==
    /\ runner.ctor.threw # "unbuilt" =>
          /\ (runner.ctor.threw = "INVALID_COMMAND") <=> (shellSplit(runner.command) = <<>>)
          /\ (runner.ctor.threw = "COMMAND_NOT_ALLOWLISTED") <=>
                 /\ shellSplit(runner.command) # <<>>
                 /\ basename(shellSplit(runner.command)[1]) \notin ALLOWED_BINARIES
          /\ runner.ctor.threw = "" => runner.ctor.commandParts = shellSplit(runner.command)
    /\ runner.exec # "idle" => runner.ctor.threw = ""
    /\ childProcess.launch \in {"spawned", "failed"} =>
          /\ childProcess.binary = shellSplit(runner.command)[1]
          /\ basename(childProcess.binary) \in ALLOWED_BINARIES

\* The command node/sh has been refused: its basename is sh.
C14_Witness ==
    /\ runner.command = <<"node", Slash, "sh">>
    /\ runner.ctor.threw = "COMMAND_NOT_ALLOWLISTED"
    /\ childProcess.launch = "none"

\* C15: the environment of a child spawned by execute holds only PATH,
\* PROMPTMGR_BLOCK_NETWORK and the allow-listed keys the parent defines, each
\* with the parent's value; PROMPTMGR_BLOCK_NETWORK is "true" whatever the
\* parent and the allow-list say; and a second parent environment that
\* agrees with the first on PATH and on the allow-listed keys gives the
\* child the same environment.
C15_ChildEnvironment ==
    childProcess.launch \in {"spawned", "failed"} =>
        /\ childProcess.env["PROMPTMGR_BLOCK_NETWORK"] = "true"
        /\ \A key \in RunnerEnvKeys \ {"PROMPTMGR_BLOCK_NETWORK"} :
              childProcess.env[key] =
                  IF key \in runner.allowlist \cup {"PATH"} THEN runner.parent[key]
                  ELSE EnvUnset
        /\ \A other \in ParentEnvs :
              (\A key \in runner.allowlist \cup {"PATH"} : other[key] = runner.parent[key])
                  => SpawnEnv(runner.allowlist, other) = childProcess.env

\* A child spawned under an allow-list naming PROMPTMGR_BLOCK_NETWORK and
\* API_TOKEN, by a parent that sets the first to "false" and defines the
\* second and HOME.
C15_Witness ==
    /\ childProcess.launch = "spawned"
    /\ runner.allowlist = {"PROMPTMGR_BLOCK_NETWORK", "API_TOKEN"}
    /\ runner.parent["PROMPTMGR_BLOCK_NETWORK"] = "false"
    /\ runner.parent["API_TOKEN"] = "s3cret"
    /\ runner.parent["HOME"] = "/root"
    /\ childProcess.env["API_TOKEN"] = "s3cret"

TimedOut == runner.exec = "rejected" /\ runner.outcome.error.code = "TOOL_TIMEOUT"

C17_ResolvesOnlyAfterCleanExit ==
    runner.exec = "resolved" =>
        /\ runner.closeSeen
        /\ runner.settledBy = "close"
        /\ ~runner.killSent
        /\ childProcess.exit = "0"

ClosedBeforeTimeout ==
    childProcess.launch = "spawned" /\ runner.closeSeen /\ runner.timer # "fired"

RejectedWith(code) == runner.exec = "rejected" /\ runner.outcome.error.code = code

\* C18: when the child closes before the timeout, execute is settled by the
\* close handler with the one outcome the precedence gives for the collected
\* stdout: empty -> TOOL_EMPTY_RESPONSE; not JSON -> TOOL_INVALID_RESPONSE;
\* JSON without a true ok -> the reported code, or TOOL_EXECUTION_ERROR;
\* otherwise resolved with the result, or null.
C18_CloseOutcomeByPrecedence ==
    ClosedBeforeTimeout =>
        /\ runner.exec \in {"resolved", "rejected"}
        /\ runner.settledBy = "close"
        /\ \E text \in {JoinLines(runner.stdout)} : \E parsed \in {ParseStdout(text)} :
              CASE text = "" -> RejectedWith("TOOL_EMPTY_RESPONSE")
                [] text # "" /\ parsed.kind = "invalid" -> RejectedWith("TOOL_INVALID_RESPONSE")
                [] parsed.kind = "object" /\ ~parsed.value.ok ->
                      RejectedWith(IF parsed.value.code # "" THEN parsed.value.code
                                   ELSE "TOOL_EXECUTION_ERROR")
                [] parsed.kind = "object" /\ parsed.value.ok ->
                      /\ runner.exec = "resolved"
                      /\ runner.outcome.result =
                             IF parsed.value.result # JUndef THEN parsed.value.result
                             ELSE JNull
                [] OTHER -> RejectedWith("TOOL_EXECUTION_ERROR")

\* The paths the worker ends by itself: it was not killed and its handler
\* did not end the process.
WorkerPathEnded ==
    /\ childProcess.launch \in {"spawned", "direct"}
    /\ childProcess.exit \in {"0", "1"}
    /\ childProcess.scenario \notin {"printNull", "printNumber"}

\* C19: on every path of the tool worker that runs to its end (missing
\* flags, malformed stdin, module missing, handlers missing, handler missing,
\* handler success, handler throwing, unserializable result) the worker has
\* called writeResponse exactly once.
C19_ExactlyOneResponseLine ==
    WorkerPathEnded => childProcess.writes = 1

ShimExpected == childProcess.env["PROMPTMGR_BLOCK_NETWORK"] # "false"

\* The worker got past the flag check (it may have ended since).
PastFlagCheck ==
    childProcess.pc \in {"stdin", "import", "handler"} \/ childProcess.shimAtImport # "n/a"

\* The shim is installed exactly when PROMPTMGR_BLOCK_NETWORK is not "false"
\* (unset included), and it was in place when the module was imported and
\* when the handler was invoked; through execute the variable is "true", so
\* no handler reaches a working network entry point.
ShimInstalledFirst ==
    /\ PastFlagCheck => childProcess.shim = ShimExpected
    /\ childProcess.shimAtImport \in {"n/a", IF ShimExpected THEN "installed" ELSE "absent"}
    /\ childProcess.shimAtHandler \in {"n/a", IF ShimExpected THEN "installed" ELSE "absent"}
    /\ childProcess.mode = "execute" =>
          /\ childProcess.launch = "spawned" => ShimExpected
          /\ ~childProcess.netUsed

\* The child has closed before the timeout and its handler had been invoked.
HandlerRan(scenarios) ==
    /\ ClosedBeforeTimeout
    /\ childProcess.shimAtHandler # "n/a"
    /\ childProcess.scenario \in scenarios

BlockedByShim ==
    /\ RejectedWith("TOOL_EXECUTION_ERROR")
    /\ runner.outcome.error.message = NetworkBlockedMessage

C21_AnyOtherValueDisables ==
    PastFlagCheck =>
        (childProcess.shim <=> childProcess.env["PROMPTMGR_BLOCK_NETWORK"] \in {EnvUnset, "true"})

\* C21, amended: the shim is installed when the variable is unset, and the
\* only value that disables it is "false": "true", "0" and the empty string
\* all leave it installed.
C21_OnlyFalseDisables ==
    PastFlagCheck =>
        /\ childProcess.env["PROMPTMGR_BLOCK_NETWORK"] = EnvUnset => childProcess.shim
        /\ childProcess.env["PROMPTMGR_BLOCK_NETWORK"] = "false" => ~childProcess.shim
        /\ childProcess.env["PROMPTMGR_BLOCK_NETWORK"] \in {"true", "0", ""} => childProcess.shim

\* A worker started with PROMPTMGR_BLOCK_NETWORK=0 whose handler awaited
\* fetch: the shim was in place and the worker ended on the blocked call.
C21_Witness ==
    /\ childProcess.launch = "direct"
    /\ childProcess.env["PROMPTMGR_BLOCK_NETWORK"] = "0"
    /\ childProcess.scenario = "fetch"
    /\ childProcess.shimAtHandler = "installed"
    /\ childProcess.exit = "1"
    /\ ~childProcess.netUsed

\* C22: the built-in adapters are registered at most once: while the flag
\* is set the registry holds the adapters made from the configuration of the
\* registering call, a later registerBuiltinProviders call with any
\* configuration leaves registry and flag as they are, and only
\* clearProvidersForTests empties the registry and resets the flag.
C22_RegisteredOnce ==
    /\ [](IF registry.builtinsRegistered
          THEN \A p \in Providers : registry.adapters[p] = createAdapter(p, call.first[p])
          ELSE registry = NoRegistry)
    /\ [][/\ registry.builtinsRegistered /\ call'.fn = "registerBuiltinProviders"
             => registry' = registry
          /\ call'.fn = "clearProvidersForTests" => registry' = NoRegistry]_vars

\* A second call, with another configuration, found the adapters of the
\* first and left them: openai still reads MY_KEY.
C22_Witness ==
    /\ call.fn = "registerBuiltinProviders"
    /\ call.before.builtinsRegistered
    /\ call.arg # call.first
    /\ call.arg["openai"].apiKeyEnv = NotSet
    /\ registry.adapters["openai"].keyEnv = "MY_KEY"
    /\ registry.adapters["google"].baseUrl = "http://localhost"

CaseIds(rep) == {rep.cases[i].hashedCaseId : i \in DOMAIN rep.cases}

\* C23 as the specification states it: diffRuns(A, A) has no regressions,
\* no improvements, and unchanged equal to the number of cases of A.
C23_SelfDiffCountsCases ==
    call.done /\ call.baseline = call.candidate =>
        /\ call.result.regressions = <<>>
        /\ call.result.improvements = <<>>
        /\ call.result.unchanged = Len(call.baseline.cases)

\* C23, amended: diffRuns(A, A) has no regressions, no improvements, and
\* unchanged (and totalCompared) equal to the number of distinct
\* hashedCaseIds of A.
C23_SelfDiffCountsIds ==
    call.done /\ call.baseline = call.candidate =>
        /\ call.result.regressions = <<>>
        /\ call.result.improvements = <<>>
        /\ call.result.unchanged = Cardinality(CaseIds(call.baseline))
        /\ call.result.totalCompared = Cardinality(CaseIds(call.baseline))

\* A report of two cases under one id, with different statuses, compared
\* with itself: one id is compared and counted.
C23_Witness ==
    /\ call.done
    /\ call.baseline = call.candidate
    /\ Len(call.baseline.cases) = 2
    /\ call.baseline.cases[1].status # call.baseline.cases[2].status
    /\ call.baseline.cases[1].hashedCaseId = call.baseline.cases[2].hashedCaseId
    /\ call.result.unchanged = 1

Rank == [pass |-> 2, fail |-> 1, error |-> 0]

SharedIds == CaseIds(call.baseline) \cap CaseIds(call.candidate)

BaselineStatus(id) == MapGet(call.baseline.cases, id).status
CandidateStatus(id) == MapGet(call.candidate.cases, id).status

EntryIds(entries) == {entries[i].hashedCaseId : i \in DOMAIN entries}

\* C24: for any two reports diffRuns returns, and each hashedCaseId present
\* in both (its case being the last under that id) is counted exactly once:
\* in unchanged when the statuses are equal, in regressions when
\* rank(baseline) > rank(candidate), otherwise in improvements; ids of one
\* report only are in none; totalCompared is the size of the union, and
\* regressions + improvements + unchanged = shared ids <= totalCompared.
C24_EverySharedIdCountedOnce ==
    call.done =>
        /\ EntryIds(call.result.regressions) =
              {id \in SharedIds : Rank[BaselineStatus(id)] > Rank[CandidateStatus(id)]}
        /\ EntryIds(call.result.improvements) =
              {id \in SharedIds : Rank[BaselineStatus(id)] < Rank[CandidateStatus(id)]}
        /\ call.result.unchanged =
              Cardinality({id \in SharedIds : BaselineStatus(id) = CandidateStatus(id)})
        /\ Len(call.result.regressions) = Cardinality(EntryIds(call.result.regressions))
        /\ Len(call.result.improvements) = Cardinality(EntryIds(call.result.improvements))
        /\ \A i \in DOMAIN call.result.regressions :
              /\ call.result.regressions[i].baselineStatus =
                     BaselineStatus(call.result.regressions[i].hashedCaseId)
              /\ call.result.regressions[i].candidateStatus =
                     CandidateStatus(call.result.regressions[i].hashedCaseId)
        /\ \A i \in DOMAIN call.result.improvements :
              /\ call.result.improvements[i].baselineStatus =
                     BaselineStatus(call.result.improvements[i].hashedCaseId)
              /\ call.result.improvements[i].candidateStatus =
                     CandidateStatus(call.result.improvements[i].hashedCaseId)
        /\ call.result.totalCompared =
              Cardinality(CaseIds(call.baseline) \cup CaseIds(call.candidate))
        /\ Len(call.result.regressions) + Len(call.result.improvements) + call.result.unchanged
              = Cardinality(SharedIds)
        /\ Cardinality(SharedIds) <= call.result.totalCompared

\* a: fail -> error is a regression, b: fail -> pass an improvement.
C24_Witness ==
    /\ call.done
    /\ call.result.regressions =
          <<[hashedCaseId |-> "a", baselineStatus |-> "fail", candidateStatus |-> "error"]>>
    /\ call.result.improvements =
          <<[hashedCaseId |-> "b", baselineStatus |-> "fail", candidateStatus |-> "pass"]>>
    /\ call.result.totalCompared = 2

\* Reports without a shared id, one of them empty: nothing is counted.
C24_WitnessDisjoint ==
    /\ call.done
    /\ call.baseline.cases = <<>>
    /\ Len(call.candidate.cases) = 2
    /\ call.result = [NoDiff EXCEPT !.baselineSuiteId = "suite", !.candidateSuiteId = "suite",
                                    !.totalCompared = 2]

\* The top-level keys of a value, in order: none unless it is an object.
TopLevelKeys(v) == IF v.t = "object" THEN [i \in DOMAIN v.o |-> v.o[i][1]] ELSE <<>>

MatcherFields(spec) == {JoinDots(spec.fieldMatchers[i][1]) : i \in DOMAIN spec.fieldMatchers}

RECURSIVE MatcherCount(_)
MatcherCount(fieldMatchers) ==
    IF Len(fieldMatchers) = 0 THEN 0
    ELSE Len(fieldMatchers[1][2]) + MatcherCount(Tail(fieldMatchers))

\* C25: for every output, expected value and spec evaluateAssertions
\* returns; missingKeys are the required keys that are not top-level keys of
\* output; unexpectedKeys are, unless allowAdditionalKeys, the top-level keys
\* outside requiredKeys, variableFields and the matched fields; there is one
\* check per matcher; and passed holds exactly when both lists are empty and
\* every check passed.
C25_KeysChecksAndVerdict ==
    call.done =>
        /\ ~call.result.threw
        /\ call.result.missingKeys =
              SeqFilter(call.spec.requiredKeys,
                        LAMBDA key : key \notin Range(TopLevelKeys(call.output)))
        /\ call.result.unexpectedKeys =
              IF call.spec.allowAdditionalKeys THEN <<>>
              ELSE SeqFilter(TopLevelKeys(call.output),
                             LAMBDA key : key \notin Range(call.spec.requiredKeys)
                                                     \cup Range(call.spec.variableFields)
                                                     \cup MatcherFields(call.spec))
        /\ Len(call.result.checks) = MatcherCount(call.spec.fieldMatchers)
        /\ call.result.passed <=>
              /\ call.result.missingKeys = <<>>
              /\ call.result.unexpectedKeys = <<>>
              /\ \A i \in DOMAIN call.result.checks : call.result.checks[i].passed

\* The value a matcher is compared against, in the stated order: its own
\* value; else the rest of an expectedPath that starts with "$expected.",
\* resolved against expected; else the field path resolved against expected.
StatedExpectedValue(matcher, fieldPath, expectedOutput) ==
    IF matcher.value # JUndef THEN matcher.value
    ELSE IF Len(matcher.expectedPath) >= 2 /\ matcher.expectedPath[1] = "$expected"
    THEN getByPath(expectedOutput, PathTokens(Tail(matcher.expectedPath)))
    ELSE getByPath(expectedOutput, PathTokens(fieldPath))

\* C26: every check evaluateAssertions returns compared the field against
\* matcher.value when defined, else against the remainder of an expectedPath
\* starting with "$expected." resolved in expected, else (no expectedPath, or
\* one without that prefix) against the matcher's own field path resolved in
\* expected.
C26_ExpectedValueInStatedOrder ==
    (call.done /\ ~call.result.threw) =>
        \A i \in DOMAIN call.result.checks :
            call.result.checks[i].expected =
                StatedExpectedValue(MatcherList(call.spec)[i].matcher,
                                    MatcherList(call.spec)[i].field,
                                    call.expected)

\* Two JSON values are equal: same type and same content, an object being
\* an unordered set of members.
RECURSIVE SameJson(_, _)
SameJson(a, b) ==
    /\ a.t = b.t
    /\ CASE a.t = "array" ->
               /\ Len(a.a) = Len(b.a)
               /\ \A i \in DOMAIN a.a : SameJson(a.a[i], b.a[i])
          [] a.t = "object" ->
               /\ Range(ObjectKeys(a)) = Range(ObjectKeys(b))
               /\ \A key \in Range(ObjectKeys(a)) : SameJson(ObjectGet(a, key), ObjectGet(b, key))
          [] OTHER -> a = b

\* The pass condition of Table 4.1 for the known operators.
TableVerdict(op, actual, expected) ==
    CASE op = "equals" -> SameJson(actual, expected)
      [] op = "oneOf" ->
            /\ expected.t = "array"
            /\ \E i \in DOMAIN expected.a : SameJson(expected.a[i], actual)
      [] op = "contains" ->
            IF actual.t = "string" /\ expected.t = "string"
            THEN Includes(actual.s, expected.s)
            ELSE /\ actual.t = "array"
                 /\ \E i \in DOMAIN actual.a : SameJson(actual.a[i], expected)
      [] op = "numericRange" ->
            /\ actual.t = "number"
            /\ \A key \in {"min"} \cap (IF expected.t = "object" THEN Range(ObjectKeys(expected)) ELSE {}) :
                   ObjectGet(expected, key).n <= actual.n
            /\ \A key \in {"max"} \cap (IF expected.t = "object" THEN Range(ObjectKeys(expected)) ELSE {}) :
                   actual.n <= ObjectGet(expected, key).n
      [] op = "exists" -> actual.t \notin {"undefined", "null"}
      [] op = "absent" -> actual.t \in {"undefined", "null"}

\* C27: for every actual and expected value of the bounded sets each
\* operator's verdict is the one of Table 4.1 -- equals and oneOf by JSON
\* equality, contains by substring or array membership and failing otherwise,
\* numericRange by min <= actual <= max with either bound optional, exists
\* and absent by undefined/null -- and an unknown operator gives a failed
\* check with message "unsupported assertion operator"; nothing throws.
C27_VerdictsAgreeWithTable ==
    call.done =>
        /\ ~call.result.threw
        /\ IF call.op = "matches"
           THEN ~call.result.passed /\ call.result.message = "unsupported assertion operator"
           ELSE call.result.passed <=> TableVerdict(call.op, call.actual, call.expected)

\* C29: loadPromptRecord resolves with a version file that is greatest
\* under compareSemver among the v<version>.md files of the directory, and
\* with that file's body, whatever meta.json holds; when the directory holds
\* no version file it rejects with 'No prompt version found'.
C29_LatestVersionFileOrNotFound ==
    call.done =>
        IF call.dir.files = <<>>
        THEN call.result.kind = "rejected" /\ call.result.message = "No prompt version found"
        ELSE /\ call.result.kind = "resolved"
             /\ call.result.version \in Range(call.dir.files)
             /\ \A other \in Range(call.dir.files) :
                    compareSemver(call.result.version, other) >= 0
             /\ call.result.body = PromptBody(call.result.version)

\* The configuration errors of a run: the configuration cannot be loaded,
\* the suite id is unknown, no model is configured for the provider and none
\* was passed, or the tool-runner command is empty or not allow-listed.
ConfigurationError ==
    \/ loadConfig(call.file) # ConfigLoaded
    \/ call.suiteId \notin Range(call.file.suites)
    \/ call.model = ModelUndefined /\ runConfig.provider \notin call.file.modelByProvider
    \/ shellSplit(call.file.command) = <<>>
    \/ basename(shellSplit(call.file.command)[1]) \notin ALLOWED_BINARIES

NothingRan ==
    /\ cs = <<>>
    /\ hist = <<>>
    /\ workers = <<>>
    /\ childProcess = NoChild
    /\ report = [summary |-> summarize(<<>>), cases |-> <<>>]

\* C28: a run with a configuration error never gets as far as the pool: it
\* is still in its set-up or its promise has rejected, no request was sent
\* to the provider, no tool process was spawned and no report was produced;
\* and once the step that meets the error is over the promise has rejected.
C28_ConfigurationErrorsReject ==
    ConfigurationError =>
        /\ runPc \in {"setup", "rejected"}
        /\ NothingRan
        /\ runPc = "rejected" <=> call.error # ""
        /\ call.step \in {"loadConfig", "resolve", "load", "rejected"}
        /\ call.step = "resolve" => loadConfig(call.file) = ConfigLoaded
        /\ call.step = "load" =>
              /\ call.suiteId \in Range(call.file.suites)
              /\ call.model # ModelUndefined \/ runConfig.provider \in call.file.modelByProvider

\* Each kind of configuration error has rejected a run.
C28_Witness ==
    /\ ConfigurationError
    /\ runPc = "rejected"
    /\ call.error = "COMMAND_NOT_ALLOWLISTED"
    /\ registry.builtinsRegistered

\* min(c, |items|) for a whole concurrency c.
MinWorkers == IF runConfig.concurrency.num < N THEN runConfig.concurrency.num ELSE N

\* The cases whose worker call was started and has not settled.
InFlight == {i \in DOMAIN cs : cs[i].phase \notin {"unclaimed", "settled"}}

\* C30: for every whole concurrency c >= 1, once runPool was called it has
\* min(c, |items|) workers; no index is claimed by two workers; at most
\* min(c, |items|) worker calls are in flight; runPool has resolved only when
\* every index below |items| was processed; and the cursor never decreases.
C30_PoolInvariant ==
    runPc # "init" =>
        /\ Len(workers) = MinWorkers
        /\ \A i \in DOMAIN cs : Cardinality(cs[i].claimedBy) <= 1
        /\ \A v, w \in DOMAIN workers :
               (v # w /\ workers[v].index = workers[w].index) => workers[v].index >= N
        /\ \A i \in DOMAIN cs : cs[i].phase # "unclaimed" <=> i <= cursor
        /\ Cardinality(InFlight) <= MinWorkers
        /\ runPc = "resolved" =>
               \A i \in 1..N : cs[i].phase = "settled" /\ i \in Recorded(report.cases)

C30_SharedCursorPool == []C30_PoolInvariant /\ [][cursor' >= cursor]_vars

\* Two workers have shared two items and runPool has resolved.
C30_Witness ==
    /\ runPc = "resolved"
    /\ N = 2
    /\ runConfig.concurrency.num = 3
    /\ cs[1].claimedBy # cs[2].claimedBy
    /\ cursor = N + MinWorkers

IsPrefix(short, long) ==
    Len(short) <= Len(long) /\ SubSeq(long, 1, Len(short)) = short

\* The function calls of response k with the tool results received for them.
CallsOfResponse(k) == FunctionCallsOf(call.received[k])

\* One function_call_output item per call of response k, in call order.
FunctionCallOutputs(k) ==
    [j \in DOMAIN CallsOfResponse(k) |->
        Entry("", "function_call_output", CallsOfResponse(k)[j].id, "",
              IF call.outcomes[k][j].t = "string" THEN call.outcomes[k][j].s
              ELSE JSONStringify(call.outcomes[k][j]),
              JUndef, <<>>)]

\* C31: in the OpenAI adapter the input of the first request is the user
\* turn, and the input of request k+1 is the input of request k, then all
\* output items of response k in their order, then one function_call_output
\* per function call of response k in call order with that call's call_id and
\* the tool result as a string (raw for a string, JSON text otherwise).
C31_OpenAiInputAppendOnly ==
    call.provider = "openai" =>
        /\ Len(call.sent) >= 1 => call.sent[1] = <<InitialTurn("openai")>>
        /\ \A k \in 1..(Len(call.sent) - 1) :
              /\ IsPrefix(call.sent[k], call.sent[k + 1])
              /\ call.sent[k + 1] =
                     call.sent[k] \o call.received[k] \o FunctionCallOutputs(k)

\* A second request was sent after a response of three items, two of them
\* calls, one of which returned an object and the other a string.
C31_Witness ==
    /\ call.provider = "openai"
    /\ Len(call.sent) = 2
    /\ Len(call.received[1]) = 3
    /\ Len(call.outcomes[1]) = 2
    /\ call.outcomes[1][1].t = "object"
    /\ call.outcomes[1][2].t = "string"

\* C32: in the Anthropic adapter the messages of every request alternate
\* between user and assistant, from a user message to a user message; the
\* m-th assistant message is the whole content array of response m, and the
\* message after it is a user message of exactly one tool_result block per
\* tool_use block of that response, in order, with that block's id.
C32_AnthropicMessagesAlternate ==
    call.provider = "anthropic" =>
        \A k \in DOMAIN call.sent :
            /\ Len(call.sent[k]) = 2 * k - 1
            /\ \A n \in DOMAIN call.sent[k] :
                   call.sent[k][n].role = IF n % 2 = 1 THEN "user" ELSE "assistant"
            /\ call.sent[k][1] = InitialTurn("anthropic")
            /\ \A m \in 1..(k - 1) :
                   /\ call.sent[k][2 * m].blocks = call.received[m]
                   /\ Len(call.sent[k][2 * m + 1].blocks) = Len(CallsOfResponse(m))
                   /\ \A j \in DOMAIN CallsOfResponse(m) :
                          /\ call.sent[k][2 * m + 1].blocks[j].type = "tool_result"
                          /\ call.sent[k][2 * m + 1].blocks[j].id = CallsOfResponse(m)[j].id

\* Three requests were sent, the last with five messages.
C32_Witness ==
    /\ call.provider = "anthropic"
    /\ Len(call.sent) = 3
    /\ Len(call.sent[3]) = 5

\* The tool calls that resolved so far, in the order they were made, each
\* with its result.
RECURSIVE CompletedCalls(_)
CompletedCalls(k) ==
    IF k = 0 THEN <<>>
    ELSE CompletedCalls(k - 1)
         \o [j \in DOMAIN call.outcomes[k] |->
                [id |-> CallsOfResponse(k)[j].id, name |-> CallsOfResponse(k)[j].name,
                 result |-> call.outcomes[k][j]]]

OkEntries == Cardinality({n \in DOMAIN call.trace : call.trace[n] = "ok"})

\* C33: in the Google adapter the contents are the initial user turn and
\* then, per tool call that completed so far and in execution order, a model
\* turn with its functionCall directly followed by a user turn with the
\* functionResponse of the same name; their length is 1 + 2 x (ok trace
\* entries), and every request sent carried the contents of its moment.
C33_GoogleContentsPairs ==
    (call.provider = "google" /\ call.phase # "new") =>
        /\ Len(call.list) = 1 + 2 * OkEntries
        /\ call.list[1] = InitialTurn("google")
        /\ Len(CompletedCalls(Len(call.outcomes))) = OkEntries
        /\ \A n \in 1..OkEntries :
              /\ call.list[2 * n].role = "model"
              /\ call.list[2 * n].type = "functionCall"
              /\ call.list[2 * n].id = CompletedCalls(Len(call.outcomes))[n].id
              /\ call.list[2 * n].name = CompletedCalls(Len(call.outcomes))[n].name
              /\ call.list[2 * n + 1].role = "user"
              /\ call.list[2 * n + 1].type = "functionResponse"
              /\ call.list[2 * n + 1].name = call.list[2 * n].name
              /\ call.list[2 * n + 1].value = CompletedCalls(Len(call.outcomes))[n].result
        /\ \A k \in DOMAIN call.sent :
              /\ IsPrefix(call.sent[k], call.list)
              /\ Len(call.sent[k]) = 1 + 2 * Len(CompletedCalls(k - 1))
        /\ call.phase = "http" => call.sent[Len(call.sent)] = call.list

\* A request was sent after two calls of one response had completed.
C33_Witness ==
    /\ call.provider = "google"
    /\ call.phase = "http"
    /\ Len(call.sent) = 2
    /\ Len(call.list) = 5
    /\ call.list[2].name # call.list[4].name

\* C34: once an execute call has settled through the child's close event,
\* a spawn-level error or a stdin write error, the timer is cleared: its
\* callback has not run and does not run, and no kill signal has been or is
\* sent.
C34_TimerClearedOnSettle ==
    (runner.exec \in {"resolved", "rejected"} /\ runner.settledBy \in {"close", "error", "stdin"}) =>
        /\ runner.timer = "cleared"
        /\ ~runner.killSent
        /\ childProcess.exit # "SIGKILL"

\* A stdin write error has settled the call; the worker runs on, waiting
\* for its input.
C34_Witness ==
    /\ runner.settledBy = "stdin"
    /\ runner.outcome.error.code = "TOOL_INPUT_ERROR"
    /\ childProcess.launch = "spawned"
    /\ childProcess.pc = "stdin"

ResponseLines ==
    SeqFilter(childProcess.out,
              LAMBDA line : line \in {StdoutOk, StdoutOkBare}
                            \/ \E e \in WorkerErrors : line = ErrorLine(e.code, e.message))

\* C35: once the worker has written its response the process has ended,
\* with status 0 after an ok:true response and with status 1 after an
\* ok:false response.
C35_ExitStatusAgreesWithResponse ==
    (childProcess.launch \in {"spawned", "direct"} /\ Len(ResponseLines) >= 1) =>
        childProcess.exit = IF ResponseLines[1] \in {StdoutOk, StdoutOkBare} THEN "0" ELSE "1"


(***************************************************************************)
(* The same case in two runs whose provider outputs may differ: the final  *)
(* output of each run, the dataset's expected value, privacy.redactInReports *)
(* and the case result of each run.                                        *)
(***************************************************************************)
RedactAtoms ==
    {"a", "b", "a@b.co", "+1 555 010 0100", "4111111111111111", "123456789012"}

RedactOutputs ==
    {JObj(<< <<"k", JStr(<<c>>)>> >>) : c \in RedactAtoms}
    \cup {JObj(<< <<"k", JArr(<<JStr(<<"a", c>>)>>)>> >>) : c \in RedactAtoms}

RedactExpecteds == {JObj(<< <<"k", JStr(<<c>>)>> >>) : c \in {"a", "a@b.co"}}

RedactConfig(redactInReports) ==
    [MakeConfig(1, 1, ObjectSchema(<<"k">>), AssertStrict) EXCEPT
        !.redactInReports = redactInReports]

RedactInit ==
    /\ PoolIdle
    /\ runner = NoRunner
    /\ childProcess = NoChild
    /\ registry = NoRegistry
    /\ call \in [fn : {"runCase"}, outputs : RedactOutputs \X RedactOutputs,
                  expected : RedactExpecteds, redactInReports : BOOLEAN, results : {<<>>}]

\* The try block of the worker callback, in each of the two runs.
RedactRuns ==
    /\ call.results = <<>>
    /\ call' = [call EXCEPT !.results =
                    [j \in 1..2 |->
                        OutputResult([caseId |-> "case-1", expected |-> call.expected],
                                     call.outputs[j], <<>>,
                                     RedactConfig(call.redactInReports))]]
    /\ UNCHANGED <<poolVars, runner, childProcess, registry>>

RedactSpec == RedactInit /\ [][RedactRuns]_vars

\* A step of run r itself while it is past its registration step.
RunOwnStep(r) ==
    /\ call.runs[r].pc \in {"loading", "pool"}
    /\ call'.runs[r] # call.runs[r]

\* C36: a run that is past its registration step writes nothing to the
\* registry and does not replace the adapter it looked up, and every case
\* it started was executed by that adapter, whatever registerProvider,
\* clearProvidersForTests and the other run did in between.
C36_RegistryOnlyReadByRun ==
    /\ [](\A r \in Runs : \A i \in DOMAIN call.runs[r].executedBy :
             /\ call.runs[r].executedBy[i] = call.runs[r].adapter
             /\ call.runs[r].adapter # NoAdapter)
    /\ [][\A r \in Runs : RunOwnStep(r) =>
             /\ registry' = registry
             /\ call'.runs[r].adapter = call.runs[r].adapter]_vars

\* A run has started both its cases with the adapter it looked up, while
\* the registry holds another adapter (or none) for its provider and the
\* other run is in its pool.
C36_Witness ==
    \E r \in Runs, o \in Runs :
        /\ r # o
        /\ Len(call.runs[r].executedBy) = 2
        /\ getProvider(registry, call.runs[r].provider) # call.runs[r].adapter
        /\ call.runs[o].pc = "pool"
        /\ call.runs[o].provider = call.runs[r].provider
        /\ call.runs[o].adapter # call.runs[r].adapter

\* Run r takes its registration step: registerBuiltinProviders and getProvider.
RunSetupStep(r) ==
    /\ call.runs[r].pc \in {"idle", "done"}
    /\ call'.runs[r].pc = "loading"

\* C38: the registration step of a run that finds the built-ins not yet
\* registered replaces whatever adapter registerProvider had stored for a
\* built-in id by the built-in adapter, and the run uses the built-in; the
\* registration step of a run that finds them registered leaves the
\* registry as it is, and getProvider hands the run the adapter stored
\* there, a custom one included.
C38_CustomAdapterOrdering ==
    [][\A r \in Runs : RunSetupStep(r) =>
          IF registry.builtinsRegistered
          THEN /\ registry' = registry
               /\ call'.runs[r].adapter = getProvider(registry, call'.runs[r].provider)
          ELSE /\ \A p \in Providers :
                      getProvider(registry', p) = createAdapter(p, RunProviders(r)[p])
               /\ call'.runs[r].adapter =
                      createAdapter(call'.runs[r].provider,
                                    RunProviders(r)[call'.runs[r].provider])]_vars

\* One run found a custom adapter registered before the built-ins and got
\* the built-in; the other found a custom adapter registered after them and
\* got the custom one, which the registry still holds.
C38_Witness ==
    \E r \in Runs, o \in Runs :
        /\ call.runs[r].pc # "idle"
        /\ ~call.runs[r].before.builtinsRegistered
        /\ call.runs[r].before.adapter \in CustomAdapters
        /\ call.runs[r].adapter = createAdapter(call.runs[r].provider,
                                                RunProviders(r)[call.runs[r].provider])
        /\ call.runs[o].pc # "idle"
        /\ call.runs[o].before.builtinsRegistered
        /\ call.runs[o].adapter \in CustomAdapters
        /\ getProvider(registry, call.runs[o].provider) = call.runs[o].adapter

\* C37: a call of execute settles.  Once the close handler has run and the
\* timer is no longer armed, no callback is left that could settle the
\* promise, so it has been resolved or rejected by then (by one callback:
\* Settle acts on a pending promise only).
C37_ExecuteSettles ==
    (runner.exec # "idle" /\ runner.closeSeen /\ runner.timer # "armed") =>
        /\ runner.exec \in {"resolved", "rejected"}
        /\ runner.settledBy \in {"close", "error", "stdin", "timer"}

\* The lines validateSchema, a failed check and the two key lists contribute
\* to errors, for the schemas, fields and operators of the case suites.
SchemaErrorLines ==
    {"(root) must be object"}
    \cup {"(root) must have required property '" \o key \o "'" : key \in {"k", "z"}}

FailedCheckLines ==
    {"k:equals:value does not match expected", "k:regex:regex did not match",
     "k:exists:value missing", "k:matches:unsupported assertion operator"}

KeyLines == {"missing keys: k", "unexpected keys: x"}

\* C39: of every case result, errors is empty exactly when status is pass;
\* a fail result has at least one entry, each a schema error, a failed
\* check or a key line, and an error result has exactly one entry.
C39_ErrorsEmptyIffPass ==
    \A i \in Recorded(results) :
        /\ results[i].errors = <<>> <=> results[i].status = "pass"
        /\ results[i].status = "fail" =>
              /\ Len(results[i].errors) >= 1
              /\ Range(results[i].errors)
                     \subseteq SchemaErrorLines \cup FailedCheckLines \cup KeyLines
        /\ results[i].status = "error" => Len(results[i].errors) = 1

\* A fail result with one entry of each kind, in the order the code appends
\* them.
C39_Witness ==
    \E i \in Recorded(results) :
        /\ results[i].status = "fail"
        /\ results[i].errors =
               <<"(root) must have required property 'k'",
                 "k:equals:value does not match expected",
                 "missing keys: k", "unexpected keys: x">>

====
